---------------------------- MODULE Spec2Model ----------------------------
(***************************************************************************)
(* Output persistence pipeline of the LinkedIn content generator           *)
(* (src/src/output_manager.py): ContentValidator, the checksum functions,   *)
(* the staged write / verify / relocate / backup steps of                   *)
(* OutputManager.save_content, and OutputManager.safe_save.                 *)
(*                                                                         *)
(* Python values are modelled structurally.  A Python str is a sequence of  *)
(* one-character strings, so that lower(), isalnum(), strip(), len() and    *)
(* the ordering of dictionary keys are computed and not assumed.            *)
(***************************************************************************)
EXTENDS Integers, Sequences, FiniteSets, TLC

(***************************************************************************)
(* Characters.  Printable ASCII in code-point order (32..126); the entry    *)
(* "grave" holds the place of code point 96, which no input uses.          *)
(***************************************************************************)
AsciiChars ==
  << " ", "!", "\"", "#", "$", "%", "&", "'", "(", ")", "*", "+", ",", "-", ".", "/",
     "0", "1", "2", "3", "4", "5", "6", "7", "8", "9", ":", ";", "<", "=", ">", "?",
     "@", "A", "B", "C", "D", "E", "F", "G", "H", "I", "J", "K", "L", "M", "N", "O",
     "P", "Q", "R", "S", "T", "U", "V", "W", "X", "Y", "Z", "[", "\\", "]", "^", "_",
     "grave", "a", "b", "c", "d", "e", "f", "g", "h", "i", "j", "k", "l", "m", "n", "o",
     "p", "q", "r", "s", "t", "u", "v", "w", "x", "y", "z", "{", "|", "}", "~" >>

\* ord(c) and chr(n) of Python, on printable ASCII.
OrdTable ==
  [c \in {AsciiChars[i] : i \in 1..Len(AsciiChars)} |->
     31 + (CHOOSE i \in 1..Len(AsciiChars) : AsciiChars[i] = c)]

Ord(c) == OrdTable[c]

Chr(n) == AsciiChars[n - 31]

\* str.isalnum() of one character.
IsAlnum(c) ==
  LET o == Ord(c)
  IN  \/ (48 <= o /\ o <= 57)
      \/ (65 <= o /\ o <= 90)
      \/ (97 <= o /\ o <= 122)

\* str.lower() of one character.
Lower(c) ==
  LET o == Ord(c)
  IN  IF 65 <= o /\ o <= 90 THEN Chr(o + 32) ELSE c

\* Python's < on two str values: lexicographic by code point.
RECURSIVE StrLess(_, _)
StrLess(a, b) ==
  IF b = <<>> THEN FALSE
  ELSE IF a = <<>> THEN TRUE
  ELSE IF Head(a) = Head(b) THEN StrLess(Tail(a), Tail(b))
  ELSE Ord(Head(a)) < Ord(Head(b))

\* str.strip(): leading and trailing spaces removed.
RECURSIVE LStrip(_)
LStrip(cs) ==
  IF cs # <<>> /\ Head(cs) = " " THEN LStrip(Tail(cs)) ELSE cs

RECURSIVE RStrip(_)
RStrip(cs) ==
  IF cs # <<>> /\ cs[Len(cs)] = " " THEN RStrip(SubSeq(cs, 1, Len(cs) - 1)) ELSE cs

Strip(cs) == RStrip(LStrip(cs))

\* str(n) of a non-negative int.
RECURSIVE IntChars(_)
IntChars(n) ==
  IF n < 10 THEN << Chr(48 + n) >>
  ELSE IntChars(n \div 10) \o << Chr(48 + (n % 10)) >>

(***************************************************************************)
(* String literals of the source, as character sequences.                  *)
(***************************************************************************)
K_metadata == << "m", "e", "t", "a", "d", "a", "t", "a" >>

K_generation_time ==
  << "g", "e", "n", "e", "r", "a", "t", "i", "o", "n", "_", "t", "i", "m", "e" >>

K_content == << "c", "o", "n", "t", "e", "n", "t" >>

K_slides == << "s", "l", "i", "d", "e", "s" >>

K_options == << "o", "p", "t", "i", "o", "n", "s" >>

K_sections == << "s", "e", "c", "t", "i", "o", "n", "s" >>

K_script == << "s", "c", "r", "i", "p", "t" >>

K_topic == << "t", "o", "p", "i", "c" >>

S_untitled == << "u", "n", "t", "i", "t", "l", "e", "d" >>

S_null == << "n", "u", "l", "l" >>

S_text == << "t", "e", "x", "t" >>

S_carousel == << "c", "a", "r", "o", "u", "s", "e", "l" >>

S_poll == << "p", "o", "l", "l" >>

S_newsletter == << "n", "e", "w", "s", "l", "e", "t", "t", "e", "r" >>

S_video_script == << "v", "i", "d", "e", "o", "_", "s", "c", "r", "i", "p", "t" >>

S_document == << "d", "o", "c", "u", "m", "e", "n", "t" >>

(***************************************************************************)
(* Python values.  Every value is a record of one shape:                   *)
(*   t  the type: "str", "int", "none", "enum", "list", "dict"             *)
(*   s  the characters of a str, or of the .value of an Enum member        *)
(*   n  the number of an int                                               *)
(*   e  the entries [k, v] of a dict in insertion order, or the items of   *)
(*      a list (k is None for an item)                                     *)
(***************************************************************************)
PyStr(cs) == [t |-> "str", s |-> cs, n |-> 0, e |-> <<>>]

PyInt(k) == [t |-> "int", s |-> <<>>, n |-> k, e |-> <<>>]

None == [t |-> "none", s |-> <<>>, n |-> 0, e |-> <<>>]

PyEnum(cs) == [t |-> "enum", s |-> cs, n |-> 0, e |-> <<>>]

Entry(key, val) == [k |-> key, v |-> val]

PyList(items) ==
  [t |-> "list", s |-> <<>>, n |-> 0,
   e |-> [i \in 1..Len(items) |-> Entry(None, items[i])]]

PyDict(entries) == [t |-> "dict", s |-> <<>>, n |-> 0, e |-> entries]

IsDict(v) == v.t = "dict"

IsList(v) == v.t = "list"

\* bool(v): the truth value that `not v` negates.
Truthy(v) ==
  CASE v.t = "str"  -> v.s # <<>>
    [] v.t = "int"  -> v.n # 0
    [] v.t = "none" -> FALSE
    [] v.t = "enum" -> TRUE
    [] OTHER        -> v.e # <<>>

\* key in d
HasKey(d, key) == \E i \in 1..Len(d.e) : d.e[i].k = key

\* d[key], for a key that is in d
Lookup(d, key) == d.e[CHOOSE i \in 1..Len(d.e) : d.e[i].k = key].v

\* d.get(key, default)
DictGet(d, key, default) == IF HasKey(d, key) THEN Lookup(d, key) ELSE default

\* d.pop(key, None), as the dict that is left
DictPop(d, key) == PyDict(SelectSeq(d.e, LAMBDA en : en.k # key))

\* type(v).__name__
TypeName(v) ==
  CASE v.t = "none" -> "NoneType"
    [] v.t = "enum" -> "ContentType"
    [] OTHER        -> v.t

(***************************************************************************)
(* Exceptions: the class and the message, the message as the sequence of   *)
(* the fragments an f-string concatenates.                                 *)
(***************************************************************************)
Exc(type, msg) == [type |-> type, msg |-> msg]

NoExc == Exc("none", <<>>)

Raised(x) == x.type # "none"

\* f"{prefix}{e}" as the message of a new exception of class `type`
WrapAs(type, prefix, x) == Exc(type, <<prefix>> \o x.msg)

\* classes derived from OutputError (src/src/output_manager.py:15-33)
OutputErrorFamily ==
  {"OutputError", "FileError", "SerializationError", "ValidationError", "RateLimitError"}

(***************************************************************************)
(* json.dumps.  String escapes are not modelled: no input holds a quote, a  *)
(* backslash or a non-ASCII character.  Dictionary keys of the inputs are   *)
(* str or int, the two key types json.dumps converts that occur here.       *)
(***************************************************************************)
\* the text json.dumps writes for a dictionary key
KeyText(key) ==
  CASE key.t = "str" -> key.s
    [] key.t = "int" -> IntChars(key.n)
    [] OTHER         -> S_null

\* the default JSONEncoder encodes v: no Enum member anywhere in it
RECURSIVE DefaultEncodable(_)
DefaultEncodable(v) ==
  CASE v.t = "enum"            -> FALSE
    [] v.t \in {"list", "dict"} -> \A i \in 1..Len(v.e) : DefaultEncodable(v.e[i].v)
    [] OTHER                   -> TRUE

\* sorted(dct.items()) succeeds in every dict of v: Python orders str with
\* str and int with int, and raises TypeError on a str and an int
RECURSIVE KeysSortable(_)
KeysSortable(v) ==
  CASE v.t = "dict" ->
         /\ \A i, j \in 1..Len(v.e) : v.e[i].k.t = v.e[j].k.t
         /\ \A i \in 1..Len(v.e) : KeysSortable(v.e[i].v)
    [] v.t = "list" -> \A i \in 1..Len(v.e) : KeysSortable(v.e[i].v)
    [] OTHER        -> TRUE

\* Python's < on two keys of one type
KeyLess(a, b) == IF a.t = "str" THEN StrLess(a.s, b.s) ELSE a.n < b.n

RECURSIVE InsertEntry(_, _)
InsertEntry(en, sorted) ==
  IF sorted = <<>> THEN << en >>
  ELSE IF KeyLess(en.k, Head(sorted).k) THEN << en >> \o sorted
  ELSE << Head(sorted) >> \o InsertEntry(en, Tail(sorted))

\* sorted(dct.items()): the entries ordered by their keys, before the keys
\* are converted to text
RECURSIVE SortEntries(_)
SortEntries(es) ==
  IF es = <<>> THEN <<>> ELSE InsertEntry(Head(es), SortEntries(Tail(es)))

\* sep.join(parts)
RECURSIVE Join(_, _)
Join(sep, parts) ==
  IF parts = <<>> THEN <<>>
  ELSE IF Len(parts) = 1 THEN parts[1]
  ELSE parts[1] \o sep \o Join(sep, Tail(parts))

\* the text of json.dumps(v, sort_keys=sort_keys), for a v it can encode
RECURSIVE DumpsText(_, _)
DumpsText(v, sort_keys) ==
  CASE v.t = "str"  -> << "\"" >> \o v.s \o << "\"" >>
    [] v.t = "int"  -> IntChars(v.n)
    [] v.t = "none" -> S_null
    [] v.t = "list" ->
         << "[" >>
         \o Join(<< ",", " " >>,
                 [i \in 1..Len(v.e) |-> DumpsText(v.e[i].v, sort_keys)])
         \o << "]" >>
    [] v.t = "dict" ->
         LET es == IF sort_keys THEN SortEntries(v.e) ELSE v.e
         IN  << "{" >>
             \o Join(<< ",", " " >>,
                     [i \in 1..Len(es) |->
                        << "\"" >> \o KeyText(es[i].k) \o << "\"", ":", " " >>
                        \o DumpsText(es[i].v, sort_keys)])
             \o << "}" >>

\* json.dumps(v, sort_keys=sort_keys): [exc, text]
json_dumps(v, sort_keys) ==
  IF ~DefaultEncodable(v)
  THEN [exc  |-> Exc("TypeError", << "Object is not JSON serializable" >>),
        text |-> <<>>]
  ELSE IF sort_keys /\ ~KeysSortable(v)
  THEN [exc  |-> Exc("TypeError",
                     << "'<' not supported between instances of 'str' and 'int'" >>),
        text |-> <<>>]
  ELSE [exc |-> NoExc, text |-> DumpsText(v, sort_keys)]

\* What json.load reads back from what json.dump(v, cls=EnumJSONEncoder)
\* wrote: EnumJSONEncoder.default gives an Enum member's value, and every
\* dictionary key has become a string.  Insertion order is kept (no
\* sort_keys).  The file's whitespace (indent=2) is not modelled.
RECURSIVE EnumJSONEncoder(_)
EnumJSONEncoder(v) ==
  CASE v.t = "enum" -> PyStr(v.s)
    [] v.t = "list" ->
         PyList([i \in 1..Len(v.e) |-> EnumJSONEncoder(v.e[i].v)])
    [] v.t = "dict" ->
         PyDict([i \in 1..Len(v.e) |->
                   Entry(PyStr(KeyText(v.e[i].k)), EnumJSONEncoder(v.e[i].v))])
    [] OTHER        -> v

\* hashlib.sha256(text.encode()).hexdigest(): a digest is taken as free of
\* collisions, so two digests are equal exactly when the texts are
Sha256Hex(text) == << "sha256:" >> \o text

(***************************************************************************)
(* OutputManager: the pure helpers.                                        *)
(***************************************************************************)
volatile_fields == << PyStr(K_generation_time), PyStr(K_metadata) >>

\* fault: the volatile fields are removed at every level of the record
RECURSIVE normalize_deep(_)
normalize_deep(content) ==
  IF ~IsDict(content) THEN content
  ELSE LET top == DictPop(DictPop(content, volatile_fields[1]), volatile_fields[2])
       IN  PyDict([i \in 1..Len(top.e) |-> Entry(top.e[i].k, normalize_deep(top.e[i].v))])

\* fault: metadata is not treated as volatile
normalize_keeps_metadata(content) ==
  IF ~IsDict(content) THEN content
  ELSE DictPop(content, volatile_fields[1])

normalize_content(content) ==
  IF ~IsDict(content) THEN content
  ELSE DictPop(DictPop(content, volatile_fields[1]), volatile_fields[2])

\* [exc, val]: the checksum, or the exception json.dumps raised (re-raised
\* as it is)
compute_checksum(content) ==
  LET d == json_dumps(normalize_content(content), TRUE)
  IN  [exc |-> d.exc,
       val |-> IF Raised(d.exc) THEN <<>> ELSE Sha256Hex(d.text)]

\* str.upper() of one character.
Upper(c) ==
  LET o == Ord(c)
  IN  IF 97 <= o /\ o <= 122 THEN Chr(o - 32) ELSE c

\* repr(v).  A str is quoted with single quotes (no input holds a quote);
\* an Enum member is a member of ContentType, named by its value in upper
\* case (src/src/linkedin_generator.py:13-19).
RECURSIVE PyRepr(_)
PyRepr(v) ==
  CASE v.t = "str"  -> << "'" >> \o v.s \o << "'" >>
    [] v.t = "int"  -> IntChars(v.n)
    [] v.t = "none" -> << "N", "o", "n", "e" >>
    [] v.t = "enum" ->
         << "<", "C", "o", "n", "t", "e", "n", "t", "T", "y", "p", "e", "." >> \o [i \in 1..Len(v.s) |-> Upper(v.s[i])]
         \o << ":", " ", "'" >> \o v.s \o << "'", ">" >>
    [] v.t = "list" ->
         << "[" >>
         \o Join(<< ",", " " >>, [i \in 1..Len(v.e) |-> PyRepr(v.e[i].v)])
         \o << "]" >>
    [] v.t = "dict" ->
         << "{" >>
         \o Join(<< ",", " " >>,
                 [i \in 1..Len(v.e) |->
                    PyRepr(v.e[i].k) \o << ":", " " >> \o PyRepr(v.e[i].v)])
         \o << "}" >>

\* str(v)
StrOf(v) ==
  CASE v.t = "str"  -> v.s
    [] v.t = "enum" -> << "C", "o", "n", "t", "e", "n", "t", "T", "y", "p", "e", "." >> \o [i \in 1..Len(v.s) |-> Upper(v.s[i])]
    [] OTHER        -> PyRepr(v)

\* fault: the text is not put in lower case
sanitize_keeps_case(text) ==
  IF ~Truthy(text) THEN S_untitled
  ELSE LET safe == [i \in 1..Len(StrOf(text)) |->
                      IF IsAlnum(StrOf(text)[i]) \/ StrOf(text)[i] \in {" ", "-", "_"}
                      THEN StrOf(text)[i] ELSE "_"]
       IN  IF Strip(safe) = <<>> THEN S_untitled ELSE Strip(safe)

sanitize_filename(text) ==
  IF ~Truthy(text) THEN S_untitled
  ELSE LET lowered == [i \in 1..Len(StrOf(text)) |-> Lower(StrOf(text)[i])]
           safe    == [i \in 1..Len(lowered) |->
                         IF IsAlnum(lowered[i]) \/ lowered[i] \in {" ", "-", "_"}
                         THEN lowered[i] ELSE "_"]
       IN  IF Strip(safe) = <<>> THEN S_untitled ELSE Strip(safe)

(***************************************************************************)
(* ContentValidator.  Each operator gives the exception raised, or NoExc.   *)
(***************************************************************************)
validate_text(content) ==
  IF ~HasKey(content, PyStr(K_content))
  THEN Exc("ValidationError", << "Text content missing 'content' field" >>)
  ELSE IF ~Truthy(Lookup(content, PyStr(K_content)))
  THEN Exc("ValidationError", << "Text content is empty" >>)
  ELSE NoExc

validate_carousel(content) ==
  IF ~HasKey(content, PyStr(K_slides))
  THEN Exc("ValidationError", << "Carousel content missing 'slides' field" >>)
  ELSE IF ~IsList(Lookup(content, PyStr(K_slides)))
  THEN Exc("ValidationError", << "Carousel 'slides' must be a list" >>)
  ELSE NoExc

\* fault: a poll without options passes
validate_poll_lenient(content) ==
  IF HasKey(content, PyStr(K_options)) /\ ~IsList(Lookup(content, PyStr(K_options)))
  THEN Exc("ValidationError", << "Poll 'options' must be a list" >>)
  ELSE NoExc

validate_poll(content) ==
  IF ~HasKey(content, PyStr(K_options))
  THEN Exc("ValidationError", << "Poll content missing 'options' field" >>)
  ELSE IF ~IsList(Lookup(content, PyStr(K_options)))
  THEN Exc("ValidationError", << "Poll 'options' must be a list" >>)
  ELSE NoExc

validate_newsletter(content) ==
  IF ~HasKey(content, PyStr(K_sections))
  THEN Exc("ValidationError", << "Newsletter content missing 'sections' field" >>)
  ELSE IF ~IsDict(Lookup(content, PyStr(K_sections)))
  THEN Exc("ValidationError", << "Newsletter 'sections' must be a dictionary" >>)
  ELSE NoExc

validate_video_script(content) ==
  IF ~HasKey(content, PyStr(K_script))
  THEN Exc("ValidationError", << "Video script content missing 'script' field" >>)
  ELSE IF ~Truthy(Lookup(content, PyStr(K_script)))
  THEN Exc("ValidationError", << "Video script content is empty" >>)
  ELSE NoExc

validate_document(content) ==
  IF ~HasKey(content, PyStr(K_sections))
  THEN Exc("ValidationError", << "Document content missing 'sections' field" >>)
  ELSE IF ~IsDict(Lookup(content, PyStr(K_sections)))
  THEN Exc("ValidationError", << "Document 'sections' must be a dictionary" >>)
  ELSE NoExc

\* the keys of the validators table
validators ==
  {S_text, S_carousel, S_poll, S_newsletter, S_video_script, S_document}

\* fault: the metadata field and the table of validators are not consulted
validate_content_unguarded(content, content_type) ==
  IF ~IsDict(content)
  THEN Exc("ValidationError", << "Content must be a dictionary" >>)
  ELSE IF ~Truthy(content)
  THEN Exc("ValidationError", << "Content is empty" >>)
  ELSE NoExc

validate_content(content, content_type) ==
  IF ~IsDict(content)
  THEN Exc("ValidationError", << "Content must be a dictionary" >>)
  ELSE IF ~Truthy(content)
  THEN Exc("ValidationError", << "Content is empty" >>)
  ELSE IF ~HasKey(content, PyStr(K_metadata))
  THEN Exc("ValidationError", << "Content missing 'metadata' field" >>)
  ELSE CASE content_type = S_text         -> validate_text(content)
         [] content_type = S_carousel     -> validate_carousel(content)
         [] content_type = S_poll         -> validate_poll(content)
         [] content_type = S_newsletter   -> validate_newsletter(content)
         [] content_type = S_video_script -> validate_video_script(content)
         [] content_type = S_document     -> validate_document(content)
         [] OTHER ->
              Exc("ValidationError",
                  << "No validator found for content type: ", "{content_type}" >>)

(***************************************************************************)
(* ContentFormatter.  A format method gives [exc, text]: the text it        *)
(* returns, or the exception it raises.                                     *)
(***************************************************************************)
Ok(text) == [exc |-> NoExc, text |-> text]

Fail(type, msg) == [exc |-> Exc(type, << msg >>), text |-> <<>>]

K_hook == << "h", "o", "o", "k" >>

K_cta == << "c", "t", "a" >>

K_context == << "c", "o", "n", "t", "e", "x", "t" >>

K_title == << "t", "i", "t", "l", "e" >>

K_duration == << "d", "u", "r", "a", "t", "i", "o", "n" >>

K_doc_type == << "d", "o", "c", "_", "t", "y", "p", "e" >>

\* does ", ".join-like str.join accept every part: each one is a str
AllStr(vals) == \A i \in 1..Len(vals) : vals[i].t = "str"

\* iter(v): [exc, items]
Iterate(v) ==
  CASE v.t = "list" -> [exc |-> NoExc, items |-> [i \in 1..Len(v.e) |-> v.e[i].v]]
    [] v.t = "dict" -> [exc |-> NoExc, items |-> [i \in 1..Len(v.e) |-> v.e[i].k]]
    [] v.t = "str"  -> [exc |-> NoExc, items |-> [i \in 1..Len(v.s) |-> PyStr(<< v.s[i] >>)]]
    [] OTHER        ->
         [exc |-> Exc("TypeError", << "object is not iterable" >>), items |-> <<>>]

\* the parts a loop over mapping.items() adds: "\n## {section}", str(text)
RECURSIVE SectionParts(_)
SectionParts(es) ==
  IF es = <<>> THEN <<>>
  ELSE << << "\n", "#", "#", " " >> \o StrOf(Head(es).k), StrOf(Head(es).v) >>
       \o SectionParts(Tail(es))

\* the parts of the optional call to action, as values to join
CtaParts(c) ==
  IF Truthy(DictGet(c, PyStr(K_cta), None))
  THEN << PyStr(<< "\n", "#", "#", " ", "C", "a", "l", "l", " ", "t", "o", " ", "A", "c", "t", "i", "o", "n" >>), Lookup(c, PyStr(K_cta)) >>
  ELSE <<>>

\* the parts the loop over the slides adds, as values to join
RECURSIVE SlideParts(_, _)
SlideParts(slides, i) ==
  IF i > Len(slides) THEN <<>>
  ELSE << PyStr(<< "\n", "#", "#", " ", "S", "l", "i", "d", "e", " " >> \o IntChars(i) \o << ":", " " >>
                \o StrOf(DictGet(slides[i], PyStr(K_title),
                                 PyStr(<< "S", "l", "i", "d", "e", " " >> \o IntChars(i))))),
          DictGet(slides[i], PyStr(K_content), PyStr(<<>>)) >>
       \o SlideParts(slides, i + 1)

\* sep.join(vals) of Python values: TypeError unless each one is a str
JoinValues(sep, vals) ==
  IF AllStr(vals)
  THEN Ok(Join(sep, [i \in 1..Len(vals) |-> vals[i].s]))
  ELSE Fail("TypeError", "sequence item: expected str instance")

format_text(c) ==
  IF ~IsDict(c) THEN Fail("AttributeError", "object has no attribute 'get'")
  ELSE Ok(StrOf(DictGet(c, PyStr(K_content), PyStr(<<>>))))

format_poll(c) ==
  IF ~IsDict(c) THEN Fail("AttributeError", "object has no attribute 'get'")
  ELSE LET opts == Iterate(DictGet(c, PyStr(K_options), PyList(<<>>)))
       IN  IF Raised(opts.exc) THEN [exc |-> opts.exc, text |-> <<>>]
           ELSE JoinValues(<< "\n", "\n" >>,
                  << PyStr(<< "#", " " >> \o StrOf(DictGet(c, PyStr(K_hook), PyStr(<< "P", "o", "l", "l" >>)))),
                     PyStr(<< "#", "#", " ", "C", "o", "n", "t", "e", "x", "t" >>),
                     DictGet(c, PyStr(K_context), PyStr(<<>>)),
                     PyStr(<< "#", "#", " ", "O", "p", "t", "i", "o", "n", "s" >>),
                     PyStr(Join(<< "\n" >>,
                                [i \in 1..Len(opts.items) |->
                                   << "-", " " >> \o StrOf(opts.items[i])])) >>)

format_carousel(c) ==
  IF ~IsDict(c) THEN Fail("AttributeError", "object has no attribute 'get'")
  ELSE LET slides == Iterate(DictGet(c, PyStr(K_slides), PyList(<<>>)))
       IN  IF Raised(slides.exc) THEN [exc |-> slides.exc, text |-> <<>>]
           ELSE IF \E i \in 1..Len(slides.items) : ~IsDict(slides.items[i])
           THEN Fail("AttributeError", "object has no attribute 'get'")
           ELSE JoinValues(<< "\n", "\n" >>,
                  << PyStr(<< "#", " " >>
                           \o StrOf(DictGet(c, PyStr(K_hook), PyStr(<< "C", "a", "r", "o", "u", "s", "e", "l" >>)))
                           \o << "\n" >>) >>
                  \o SlideParts(slides.items, 1)
                  \o CtaParts(c))

format_newsletter(c) ==
  IF ~IsDict(c) THEN Fail("AttributeError", "object has no attribute 'get'")
  ELSE IF ~IsDict(DictGet(c, PyStr(K_sections), PyDict(<<>>)))
  THEN Fail("AttributeError", "object has no attribute 'items'")
  ELSE JoinValues(<< "\n", "\n" >>,
         << PyStr(<< "#", " " >> \o StrOf(DictGet(c, PyStr(K_hook), PyStr(<< "N", "e", "w", "s", "l", "e", "t", "t", "e", "r" >>)))) >>
         \o [i \in 1..(2 * Len(DictGet(c, PyStr(K_sections), PyDict(<<>>)).e)) |->
               PyStr(SectionParts(DictGet(c, PyStr(K_sections), PyDict(<<>>)).e)[i])]
         \o CtaParts(c))

format_video_script(c) ==
  IF ~IsDict(c) THEN Fail("AttributeError", "object has no attribute 'get'")
  ELSE IF ~IsDict(DictGet(c, PyStr(K_script), PyDict(<<>>)))
  THEN Fail("AttributeError", "object has no attribute 'items'")
  ELSE Ok(Join(<< "\n", "\n" >>,
         << << "#", " " >> \o StrOf(DictGet(c, PyStr(K_hook), PyStr(<< "V", "i", "d", "e", "o", " ", "S", "c", "r", "i", "p", "t" >>))),
            << "D", "u", "r", "a", "t", "i", "o", "n", ":", " " >> \o StrOf(DictGet(c, PyStr(K_duration), PyInt(0)))
            \o << " ", "m", "i", "n", "u", "t", "e", "s" >> >>
         \o SectionParts(DictGet(c, PyStr(K_script), PyDict(<<>>)).e)))

format_document(c) ==
  IF ~IsDict(c) THEN Fail("AttributeError", "object has no attribute 'get'")
  ELSE IF ~IsDict(DictGet(c, PyStr(K_sections), PyDict(<<>>)))
  THEN Fail("AttributeError", "object has no attribute 'items'")
  ELSE Ok(Join(<< "\n", "\n" >>,
         << << "#", " " >> \o StrOf(DictGet(c, PyStr(K_hook), PyStr(<< "D", "o", "c", "u", "m", "e", "n", "t" >>))),
            << "D", "o", "c", "u", "m", "e", "n", "t", " ", "T", "y", "p", "e", ":", " " >>
            \o StrOf(DictGet(c, PyStr(K_doc_type), PyStr(<< "u", "n", "k", "n", "o", "w", "n" >>))) >>
         \o SectionParts(DictGet(c, PyStr(K_sections), PyDict(<<>>)).e)))

\* fault: no fallback, the text of the method as it is
format_unguarded(content, result) == result.text

\* format_safely: the method's text, or the fallback when the method raised
\* or returned an empty text
format_safely(content, result) ==
  IF Raised(result.exc) \/ result.text = <<>>
  THEN << "#", " ", "E", "r", "r", "o", "r", " ", "F", "o", "r", "m", "a", "t", "t", "i", "n", "g", " ", "C", "o", "n", "t", "e", "n", "t", "\n", "\n", "O", "r", "i", "g", "i", "n", "a", "l", " ", "c", "o", "n", "t", "e", "n", "t", ":", "\n" >> \o StrOf(content)
  ELSE result.text

\* the keys of the FORMATTERS table
FORMATTERS ==
  {S_text, S_carousel, S_poll, S_newsletter, S_video_script, S_document}

\* formatter(content) in _save_formatted: [exc, text].  For a type without a
\* formatter the code takes ContentFormatter.text, the function of the class
\* and not a bound method, so that formatter(content) binds the content to
\* self and raises TypeError for the missing argument.
formatter(content, content_type) ==
  CASE content_type = S_text         -> Ok(format_safely(content, format_text(content)))
    [] content_type = S_carousel     -> Ok(format_safely(content, format_carousel(content)))
    [] content_type = S_poll         -> Ok(format_safely(content, format_poll(content)))
    [] content_type = S_newsletter   -> Ok(format_safely(content, format_newsletter(content)))
    [] content_type = S_video_script -> Ok(format_safely(content, format_video_script(content)))
    [] content_type = S_document     -> Ok(format_safely(content, format_document(content)))
    [] OTHER ->
         Fail("TypeError", "text() missing 1 required positional argument: 'content'")

(***************************************************************************)
(* Program constants.  Times are in tenths of a second.                    *)
(***************************************************************************)
MAX_RETRIES == 3

MAX_CONTENT_SIZE == 10485760

RATE_LIMIT_INTERVAL == 10

(***************************************************************************)
(* Files.  A directory's files are a function from file names to file      *)
(* data; a JSON or YAML file is held as the document it encodes, a text     *)
(* file as its characters.                                                  *)
(***************************************************************************)
JsonFile(doc) == [fmt |-> "json", doc |-> doc, text |-> <<>>]

YamlFile(doc) == [fmt |-> "yaml", doc |-> doc, text |-> <<>>]

TextFile(text) == [fmt |-> "text", doc |-> None, text |-> text]

\* a file whose content is no JSON document
GarbageFile == [fmt |-> "garbage", doc |-> None, text |-> <<>>]

NoFiles == [name \in {} |-> GarbageFile]

Put(files, name, data) ==
  [x \in DOMAIN files \cup {name} |-> IF x = name THEN data ELSE files[x]]

Remove(files, name) == [x \in DOMAIN files \ {name} |-> files[x]]

NoDir == [exists |-> FALSE, files |-> NoFiles]

\* a failure of the operating system in a filesystem call
OSError == Exc("OSError", << "[Errno 28] No space left on device" >>)

\* json.load of a file: [exc, val]
json_load(data) ==
  IF data.fmt = "json" THEN [exc |-> NoExc, val |-> data.doc]
  ELSE [exc |-> Exc("JSONDecodeError", << "Expecting value: line 1 column 1 (char 0)" >>),
        val |-> None]

(***************************************************************************)
(* Inputs: the records and content types a caller passes.                  *)
(***************************************************************************)
\* most items of a generated list, most entries of a generated dict
MaxItems == 2

SeqsUpTo(S, n) == UNION {[1..k -> S] : k \in 0..n}

Injective(seq) == \A i, j \in 1..Len(seq) : i # j => seq[i] # seq[j]

ScalarValues ==
  {PyStr(<<>>), PyStr(<< "H", "e", "l", "l", "o", " ", "w", "o", "r", "l", "d" >>), PyInt(0), PyInt(5), None, PyEnum(S_text),
   PyStr(<< "a", "\\udc80" >>)}

ItemValues ==
  {PyStr(<< "a" >>), PyDict(<< Entry(PyStr(K_title), PyStr(<< "T" >>)) >>)}

ListValues == {PyList(items) : items \in SeqsUpTo(ItemValues, MaxItems)}

KeyValues ==
  {PyStr(<< "i", "n", "t", "r", "o" >>), PyStr(<< "b", "o", "d", "y" >>), PyInt(2), PyInt(10)}

DictValues ==
  {PyDict([i \in 1..Len(ks) |-> Entry(ks[i], PyStr(<< "x" >>))]) :
     ks \in {q \in SeqsUpTo(KeyValues, MaxItems) : Injective(q)}}

FieldValues == ScalarValues \cup ListValues \cup DictValues

\* values of the metadata field
MetadataValues ==
  {PyDict(<<>>),
   PyDict(<< Entry(PyStr(K_topic), PyStr(<< "A", "I", " ", "T", "r", "e", "n", "d", "s" >>)) >>),
   PyStr(<< "d", "r", "a", "f", "t" >>)}

GenerationTimes == {PyStr(<< "2", "0", "2", "4", "-", "0", "1", "-", "0", "1", "T", "0", "0", ":", "0", "0", ":", "0", "0" >>)}

\* the field the validator of a content type requires; for a type without
\* a validator, the field of a text record
RequiredField(content_type) ==
  CASE content_type = S_carousel     -> K_slides
    [] content_type = S_poll         -> K_options
    [] content_type = S_newsletter   -> K_sections
    [] content_type = S_video_script -> K_script
    [] content_type = S_document     -> K_sections
    [] OTHER                         -> K_content

\* dictionaries holding, in this order, any of: one field, metadata,
\* generation_time
DictRecords(field) ==
  {PyDict(f \o m \o g) :
     f \in {<<>>} \cup {<< Entry(PyStr(field), v) >> : v \in FieldValues},
     m \in {<<>>} \cup {<< Entry(PyStr(K_metadata), v) >> : v \in MetadataValues},
     g \in {<<>>} \cup {<< Entry(PyStr(K_generation_time), v) >> : v \in GenerationTimes}}

\* records that are no dictionary
OtherRecords == {None, PyStr(<< "H", "e", "l", "l", "o", " ", "w", "o", "r", "l", "d" >>), PyList(<<>>)}

ContentTypes == validators \cup {<< "w", "e", "b", "i", "n", "a", "r" >>}

Inputs ==
  UNION {{<< c, k >> : c \in DictRecords(RequiredField(k)) \cup OtherRecords} :
           k \in ContentTypes}

(***************************************************************************)
(* State.                                                                  *)
(***************************************************************************)
VARIABLES
  probe,            \* the arguments and results of a pure function applied
  base_dir,         \* OutputManager.base_dir
  backup_dir,       \* OutputManager.backup_dir is set
  last_save_time,   \* OutputManager.last_save_time
  clock,            \* time.time()
  pc,               \* the place of the running call
  entry,            \* the public operation called: save_content or safe_save
  content,          \* the caller's record
  content_type,
  content_to_save,  \* the deep copy
  checksum,         \* the checksum computed before staging
  temp_dir,         \* the scratch directory of safe_file_operation
  content_dir,      \* the final directory of the content type
  base_filename,
  temp_paths,       \* tag and staged file name, in the order of insertion
  final_paths,      \* tag and final path, in the order of insertion
  attempt,          \* the loop variable of the running _retry_operation
  waits,            \* the waits of the running _retry_operation
  pending,          \* the exception propagating inside save_content
  error,            \* the exception raised to the caller
  result,           \* the mapping returned to the caller
  sc_done,          \* how save_content ended: "no", "returned", "raised"
  output_files,     \* the files under base_dir, by path
  backup_files,     \* the files under backup_dir, by path
  ss_temp,          \* the temporary backup directory of safe_save
  corrupted,        \* a staged file was altered from outside
  rm_failed,        \* history: the removal of the scratch directory failed
  cause,            \* history: the exception first raised in the call,
                    \* and the place that raised it
  validated,        \* history: validate_content accepted the record
  moves,            \* history: calls of shutil.move
  copy_failed,      \* history: a copy of _create_backup failed
  ss_rm_failed      \* history: the removal of safe_save's directory failed

vars ==
  << probe, base_dir, backup_dir, last_save_time, clock, pc, entry, content, content_type,
     content_to_save, checksum, temp_dir, content_dir, base_filename,
     temp_paths, final_paths, attempt, waits, pending, error, result, sc_done,
     output_files, backup_files, ss_temp, corrupted, rm_failed, cause, validated, moves,
     copy_failed, ss_rm_failed >>

v_inst == << probe, base_dir, backup_dir >>

v_call == << v_inst, entry, content, content_type, copy_failed >>

v_time == << last_save_time, clock >>

v_stage == << temp_dir, content_dir, base_filename, temp_paths, corrupted, rm_failed >>

v_final == << output_files, backup_files, final_paths, moves >>

v_retry == << attempt, waits >>

v_out == << error, result, sc_done, ss_temp, ss_rm_failed >>

NoCause == [exc |-> NoExc, at |-> "none"]

NoSum == [exc |-> NoExc, val |-> <<>>]

NoProbe ==
  [r1 |-> None, r2 |-> None, n1 |-> None, c1 |-> NoSum, c2 |-> NoSum, done |-> FALSE]

\* a fresh OutputManager, its base directory given as a relative or as an
\* absolute path, with or without a backup directory, and no call yet, at
\* the time now
NewManager(now) ==
  /\ base_dir \in {<< "o", "u", "t", "p", "u", "t" >>,
                   << "/", "s", "r", "v", "/", "o", "u", "t" >>}
  /\ backup_dir \in BOOLEAN
  /\ last_save_time = 0
  /\ clock = now
  /\ pc = "idle"
  /\ entry = "none"
  /\ content = None
  /\ content_type = <<>>
  /\ content_to_save = None
  /\ checksum = <<>>
  /\ temp_dir = NoDir
  /\ content_dir = <<>>
  /\ base_filename = <<>>
  /\ temp_paths = <<>>
  /\ final_paths = <<>>
  /\ attempt = 0
  /\ waits = <<>>
  /\ pending = NoExc
  /\ error = NoExc
  /\ result = <<>>
  /\ sc_done = "no"
  /\ output_files = NoFiles
  /\ backup_files = NoFiles
  /\ ss_temp = NoDir
  /\ corrupted = FALSE
  /\ rm_failed = FALSE
  /\ cause = NoCause
  /\ validated = FALSE
  /\ moves = 0
  /\ copy_failed = FALSE
  /\ ss_rm_failed = FALSE

\* the manager is constructed 100 s after the start of the first day
InitManager == NewManager(1000)

Init == InitManager /\ probe = NoProbe

(***************************************************************************)
(* The call of a public operation, with any input.                         *)
(***************************************************************************)
Call ==
  /\ pc = "idle"
  /\ \E e \in {"save_content", "safe_save"}, in \in Inputs :
       /\ entry' = e
       /\ content' = in[1]
       /\ content_type' = in[2]
       /\ pc' = IF e = "safe_save" THEN "ss_backup" ELSE "size"
  /\ UNCHANGED << v_inst, copy_failed, v_time, content_to_save, checksum, v_stage,
                  v_final, v_retry, pending, v_out, cause, validated >>

(***************************************************************************)
(* save_content.                                                           *)
(***************************************************************************)
\* an exception e is raised at a place of save_content; `seen` is the
\* exception as the inner handlers re-raise it, `where` the place reached
RaiseTo(e, seen, where) ==
  /\ cause' = [exc |-> e, at |-> pc]
  /\ pending' = seen
  /\ pc' = where

\* fault: a record of exactly the maximum size is rejected
size_exceeds_inclusive(content_size) == content_size >= MAX_CONTENT_SIZE

\* content_size > self.MAX_CONTENT_SIZE
size_exceeds(content_size) == content_size > MAX_CONTENT_SIZE

\* content_size = len(json.dumps(content)); the size check
SizeCheck ==
  /\ pc = "size"
  /\ LET d == json_dumps(content, FALSE)
         tooBig == Exc("ValidationError",
                       << "Content size (", "{content_size}", " bytes) exceeds limit" >>)
     IN  IF Raised(d.exc) THEN RaiseTo(d.exc, d.exc, "deliver")
         ELSE IF size_exceeds(Len(d.text)) THEN RaiseTo(tooBig, tooBig, "deliver")
         ELSE pc' = "throttle" /\ UNCHANGED << pending, cause >>
  /\ UNCHANGED << v_call, v_time, content_to_save, checksum, v_stage, v_final,
                  v_retry, v_out, validated >>

\* fault: the time is noted without the sleep
ThrottleNoSleep ==
  /\ pc = "throttle"
  /\ last_save_time' = clock
  /\ pc' = "validate"
  /\ UNCHANGED << v_call, clock, content_to_save, checksum, v_stage, v_final,
                  v_retry, pending, v_out, cause, validated >>

\* fault: the time of the save is not noted
ThrottleKeepsTime ==
  /\ pc = "throttle"
  /\ LET now == clock
         sleep_time == IF now - last_save_time < RATE_LIMIT_INTERVAL
                       THEN RATE_LIMIT_INTERVAL - (now - last_save_time)
                       ELSE 0
     IN  clock' = clock + sleep_time
  /\ pc' = "validate"
  /\ UNCHANGED << v_call, last_save_time, content_to_save, checksum, v_stage, v_final,
                  v_retry, pending, v_out, cause, validated >>

\* fault: a call that comes too early sleeps the whole interval
ThrottleWholeInterval ==
  /\ pc = "throttle"
  /\ LET now == clock
         sleep_time == IF now - last_save_time < RATE_LIMIT_INTERVAL
                       THEN RATE_LIMIT_INTERVAL
                       ELSE 0
     IN  /\ clock' = clock + sleep_time
         /\ last_save_time' = clock'
  /\ pc' = "validate"
  /\ UNCHANGED << v_call, content_to_save, checksum, v_stage, v_final, v_retry,
                  pending, v_out, cause, validated >>

\* the rate limit: sleep for the rest of the interval, then note the time
Throttle ==
  /\ pc = "throttle"
  /\ LET now == clock
         sleep_time == IF now - last_save_time < RATE_LIMIT_INTERVAL
                       THEN RATE_LIMIT_INTERVAL - (now - last_save_time)
                       ELSE 0
     IN  /\ clock' = clock + sleep_time
         /\ last_save_time' = clock'
  /\ pc' = "validate"
  /\ UNCHANGED << v_call, content_to_save, checksum, v_stage, v_final, v_retry,
                  pending, v_out, cause, validated >>

\* fault: a dictionary goes on to be saved whatever the validator says
ValidateIgnored ==
  /\ pc = "validate"
  /\ LET e == validate_content(content, content_type)
     IN  IF ~IsDict(content) THEN RaiseTo(e, e, "deliver") /\ UNCHANGED validated
         ELSE /\ validated' = ~Raised(e)
              /\ pc' = "checksum"
              /\ UNCHANGED << pending, cause >>
  /\ UNCHANGED << v_call, v_time, content_to_save, checksum, v_stage, v_final,
                  v_retry, v_out >>

Validate ==
  /\ pc = "validate"
  /\ LET e == validate_content(content, content_type)
     IN  IF Raised(e) THEN RaiseTo(e, e, "deliver") /\ UNCHANGED validated
         ELSE /\ validated' = TRUE
              /\ pc' = "checksum"
              /\ UNCHANGED << pending, cause >>
  /\ UNCHANGED << v_call, v_time, content_to_save, checksum, v_stage, v_final,
                  v_retry, v_out >>

\* fault: no copy is made, and the volatile fields are popped from the
\* caller's record itself
ChecksumInPlace ==
  /\ pc = "checksum"
  /\ content' = normalize_content(content)
  /\ content_to_save' = content'
  /\ LET c == compute_checksum(content)
     IN  IF Raised(c.exc) THEN RaiseTo(c.exc, c.exc, "deliver") /\ UNCHANGED checksum
         ELSE /\ checksum' = c.val
              /\ pc' = "mkdtemp"
              /\ UNCHANGED << pending, cause >>
  /\ UNCHANGED << v_inst, entry, content_type, copy_failed, v_time, v_stage,
                  v_final, v_retry, v_out, validated >>

\* content_to_save = copy.deepcopy(content); checksum of the copy
Checksum ==
  /\ pc = "checksum"
  /\ content_to_save' = content
  /\ LET c == compute_checksum(content)
     IN  IF Raised(c.exc) THEN RaiseTo(c.exc, c.exc, "deliver") /\ UNCHANGED checksum
         ELSE /\ checksum' = c.val
              /\ pc' = "mkdtemp"
              /\ UNCHANGED << pending, cause >>
  /\ UNCHANGED << v_call, v_time, v_stage, v_final, v_retry, v_out, validated >>

\* safe_file_operation: tempfile.mkdtemp() makes the scratch directory, or
\* fails; nothing is to be removed when it failed
Mkdtemp ==
  /\ pc = "mkdtemp"
  /\ \E ok \in BOOLEAN :
       IF ok
       THEN /\ temp_dir' = [exists |-> TRUE, files |-> NoFiles]
            /\ pc' = "content_dir"
            /\ UNCHANGED << pending, cause >>
       ELSE RaiseTo(OSError, OSError, "deliver") /\ UNCHANGED temp_dir
  /\ UNCHANGED << v_call, v_time, content_to_save, checksum, content_dir,
                  base_filename, temp_paths, corrupted, rm_failed, v_final, v_retry, v_out,
                  validated >>

\* _get_content_dir: base_dir / date / sanitized type, a path kept as the
\* sequence of its parts, the date being the number of the day;
\* mkdir(parents=True, exist_ok=True), or FileError
GetContentDir ==
  /\ pc = "content_dir"
  /\ \E ok \in BOOLEAN :
       IF ok
       THEN /\ LET date_dir == << base_dir, IntChars(clock \div 864000) >>
               IN  content_dir' =
                     date_dir \o << sanitize_filename(PyStr(content_type)) >>
            /\ pc' = "base_filename"
            /\ UNCHANGED << pending, cause >>
       ELSE /\ RaiseTo(OSError,
                       WrapAs("FileError", "Failed to create content directory: ", OSError),
                       "exit_scope")
            /\ UNCHANGED content_dir
  /\ UNCHANGED << v_call, v_time, content_to_save, checksum, temp_dir,
                  base_filename, temp_paths, corrupted, rm_failed, v_final, v_retry, v_out,
                  validated >>

\* datetime.now().strftime("%Y%m%d_%H%M%S"): the time cut to whole seconds
Timestamp(t) == IntChars(t \div 10)

\* topic = content.get('metadata', {}).get('topic', 'untitled'), and the base
\* file name; a metadata that is no dictionary has no get
BaseFilename ==
  /\ pc = "base_filename"
  /\ LET metadata == DictGet(content, PyStr(K_metadata), PyDict(<<>>))
         noGet == Exc("AttributeError", << "object has no attribute 'get'" >>)
     IN  IF ~IsDict(metadata)
         THEN RaiseTo(noGet, noGet, "exit_scope") /\ UNCHANGED base_filename
         ELSE /\ base_filename' =
                   sanitize_filename(DictGet(metadata, PyStr(K_topic), PyStr(S_untitled)))
                   \o << "_" >> \o Timestamp(clock)
              /\ pc' = "save_json"
              /\ UNCHANGED << pending, cause >>
  /\ UNCHANGED << v_call, v_time, content_to_save, checksum, temp_dir,
                  content_dir, temp_paths, corrupted, rm_failed, v_final, v_retry, v_out,
                  validated >>

(***************************************************************************)
(* _retry_operation.  One action is one attempt of the wrapped operation;  *)
(* the environment decides whether the filesystem call succeeds.           *)
(***************************************************************************)
RECURSIVE Pow2(_)
Pow2(n) == IF n = 0 THEN 1 ELSE 2 * Pow2(n - 1)

\* fault: the wait does not grow
wait_time_constant(n) == 10

\* wait_time = 2 ** attempt, in tenths of a second
wait_time(n) == 10 * Pow2(n)

\* fault: the first failure is raised at once
FailedAttemptGivesUp(e, seen) ==
  /\ RaiseTo(e, seen, "exit_scope")
  /\ UNCHANGED << attempt, waits >>

\* fault: the second failure is the last one
FailedAttemptTwoTries(e, seen) ==
  IF attempt = MAX_RETRIES - 2
  THEN /\ RaiseTo(e, seen, "exit_scope")
       /\ UNCHANGED << attempt, waits >>
  ELSE /\ attempt' = attempt + 1
       /\ waits' = Append(waits, wait_time(attempt))
       /\ UNCHANGED << pc, pending, cause >>

\* fault: the loop has no last attempt
FailedAttemptNoLimit(e, seen) ==
  /\ attempt' = attempt + 1
  /\ waits' = Append(waits, wait_time(attempt))
  /\ UNCHANGED << pc, pending, cause >>

\* the attempt raised e: the last attempt re-raises it (`seen` is what the
\* handlers around _retry_operation make of it), any other one sleeps and
\* goes round again
FailedAttempt(e, seen) ==
  IF attempt = MAX_RETRIES - 1
  THEN /\ RaiseTo(e, seen, "exit_scope")
       /\ UNCHANGED << attempt, waits >>
  ELSE /\ attempt' = attempt + 1
       /\ waits' = Append(waits, wait_time(attempt))
       /\ UNCHANGED << pc, pending, cause >>

\* fault: the call goes from the last write to the relocation
SucceededUnverified(next) ==
  /\ attempt' = 0
  /\ waits' = <<>>
  /\ pc' = IF next = "verify" THEN "move" ELSE next
  /\ UNCHANGED << pending, cause >>

\* the operation returned: _retry_operation returns
Succeeded(next) ==
  /\ attempt' = 0
  /\ waits' = <<>>
  /\ pc' = next
  /\ UNCHANGED << pending, cause >>

\* what the handler of _save_all_formats raises for e
save_all_formats_except(e) ==
  WrapAs("OutputError", "Failed to save content formats: ", e)

\* what the handler of _save_formatted raises for e
save_formatted_except(e) ==
  WrapAs("OutputError", "Content formatting failed: ", e)

\* what the handler of _move_to_final_location raises for e
move_except(e) ==
  WrapAs("FileError", "Failed to move files to final location: ", e)

\* fault: the handler of save_content drops the exception it caught
save_content_except_bare(e) ==
  Exc("OutputError", << "Content save failed" >>)

\* what the handler of save_content raises for e
save_content_except(e) ==
  WrapAs("OutputError", "Content save failed: ", e)

\* fault: the staged file is named after its tag, without the base filename
StagedByTag(tag, name, data) ==
  /\ temp_dir' = [temp_dir EXCEPT !.files = Put(@, << tag >>, data)]
  /\ temp_paths' = Append(temp_paths, [tag |-> tag, path |-> << tag >>])

\* a file is written into the scratch directory and its path is noted
Staged(tag, name, data) ==
  /\ temp_dir' = [temp_dir EXCEPT !.files = Put(@, name, data)]
  /\ temp_paths' = Append(temp_paths, [tag |-> tag, path |-> name])

\* the text can be written to a file opened with encoding='utf-8': no str
\* of v holds a lone surrogate (written "\\udc80" here), which json.dumps
\* with ensure_ascii escapes and json.dump with ensure_ascii=False leaves
\* to the file's encoder
RECURSIVE Utf8Encodable(_)
Utf8Encodable(v) ==
  CASE v.t \in {"str", "enum"} -> \A i \in 1..Len(v.s) : v.s[i] # "\\udc80"
    [] v.t \in {"list", "dict"} ->
         \A i \in 1..Len(v.e) : Utf8Encodable(v.e[i].k) /\ Utf8Encodable(v.e[i].v)
    [] OTHER -> TRUE

\* _save_all_formats, first part: _save_json under _retry_operation; the
\* write raises when the text cannot be encoded, or when the filesystem
\* fails
SaveJson ==
  /\ pc = "save_json"
  /\ \E ok \in BOOLEAN :
       LET UnicodeEncodeError ==
             Exc("UnicodeEncodeError",
                 << "'utf-8' codec can't encode character: surrogates not allowed" >>)
       IN
       IF ~Utf8Encodable(content_to_save)
       THEN /\ FailedAttempt(UnicodeEncodeError,
                             save_all_formats_except(UnicodeEncodeError))
            /\ UNCHANGED << temp_dir, temp_paths >>
       ELSE IF ok
       THEN /\ Staged("json", base_filename \o << ".", "j", "s", "o", "n" >>,
                      JsonFile(EnumJSONEncoder(content_to_save)))
            /\ Succeeded("save_formatted")
       ELSE /\ FailedAttempt(OSError, save_all_formats_except(OSError))
            /\ UNCHANGED << temp_dir, temp_paths >>
  /\ UNCHANGED << v_call, v_time, content_to_save, checksum, content_dir,
                  base_filename, corrupted, rm_failed, v_final, v_out, validated >>

\* fault: every rendering is written as markdown
ext_markdown(ct) == << ".", "m", "d" >>

\* ext = '.md' if content_type != 'text' else '.txt'
ext(ct) == IF ct # S_text THEN << ".", "m", "d" >> ELSE << ".", "t", "x", "t" >>

\* _save_formatted: the formatter's text, written under _retry_operation
SaveFormatted ==
  /\ pc = "save_formatted"
  /\ LET f == formatter(content_to_save, content_type)
     IN  IF Raised(f.exc)
         THEN /\ RaiseTo(f.exc, save_all_formats_except(save_formatted_except(f.exc)),
                         "exit_scope")
              /\ UNCHANGED << temp_dir, temp_paths, attempt, waits >>
         ELSE \E ok \in BOOLEAN :
                IF ok
                THEN /\ Staged("formatted", base_filename \o ext(content_type),
                               TextFile(f.text))
                     /\ Succeeded("save_yaml")
                ELSE /\ FailedAttempt(OSError,
                          save_all_formats_except(save_formatted_except(OSError)))
                     /\ UNCHANGED << temp_dir, temp_paths >>
  /\ UNCHANGED << v_call, v_time, content_to_save, checksum, content_dir,
                  base_filename, corrupted, rm_failed, v_final, v_out, validated >>

\* _save_all_formats, last part: _save_yaml of content.get('metadata', {})
SaveYaml ==
  /\ pc = "save_yaml"
  /\ \E ok \in BOOLEAN :
       IF ok
       THEN /\ Staged("metadata", base_filename \o << "_", "m", "e", "t", "a", ".", "y", "a", "m", "l" >>,
                      YamlFile(DictGet(content_to_save, PyStr(K_metadata), PyDict(<<>>))))
            /\ Succeeded("verify")
       ELSE /\ FailedAttempt(OSError, save_all_formats_except(OSError))
            /\ UNCHANGED << temp_dir, temp_paths >>
  /\ UNCHANGED << v_call, v_time, content_to_save, checksum, content_dir,
                  base_filename, corrupted, rm_failed, v_final, v_out, validated >>

(***************************************************************************)
(* The environment alters the staged JSON file before it is verified.      *)
(***************************************************************************)
\* d[key] = val
DictSet(d, key, val) ==
  IF HasKey(d, key)
  THEN PyDict([i \in 1..Len(d.e) |-> IF d.e[i].k = key THEN Entry(key, val) ELSE d.e[i]])
  ELSE PyDict(Append(d.e, Entry(key, val)))

Corrupt ==
  /\ pc = "verify"
  /\ ~corrupted
  /\ corrupted' = TRUE
  /\ LET name == temp_paths[1].path
         doc  == temp_dir.files[name].doc
     IN  \E how \in {"garbage", "delete", "field", "metadata"} :
           temp_dir' =
             [temp_dir EXCEPT !.files =
                CASE how = "garbage"  -> Put(@, name, GarbageFile)
                  [] how = "delete"   -> Remove(@, name)
                  [] how = "field"    ->
                       Put(@, name, JsonFile(DictSet(doc, PyStr(<< "t", "a", "m", "p", "e", "r", "e", "d" >>), PyInt(1))))
                  [] how = "metadata" ->
                       Put(@, name, JsonFile(DictSet(doc, PyStr(K_metadata),
                                                     PyStr(<< "t", "a", "m", "p", "e", "r", "e", "d" >>))))]
  /\ UNCHANGED << v_call, v_time, pc, content_to_save, checksum, content_dir,
                  base_filename, temp_paths, rm_failed, v_final, v_retry, pending, v_out,
                  cause, validated >>

(***************************************************************************)
(* _verify_saved_files                                                     *)
(***************************************************************************)
\* fault: the checksums are not compared
checksum_unchecked(saved_checksum, expected) == TRUE

\* the checksum of the staged JSON equals the one computed before staging
checksum_matches(saved_checksum, expected) == saved_checksum = expected

\* the exception the loop over the paths raises from path i on, or NoExc
RECURSIVE verify_saved_files(_, _, _, _)
verify_saved_files(paths, i, files, expected) ==
  IF i > Len(paths) THEN NoExc
  ELSE IF paths[i].path \notin DOMAIN files
  THEN Exc("FileError", << "Missing file: ", "{path}" >>)
  ELSE IF paths[i].tag # "json"
  THEN verify_saved_files(paths, i + 1, files, expected)
  ELSE LET loaded == json_load(files[paths[i].path])
           saved  == compute_checksum(loaded.val)
       IN  IF Raised(loaded.exc) THEN loaded.exc
           ELSE IF Raised(saved.exc) THEN saved.exc
           ELSE IF ~checksum_matches(saved.val, expected)
           THEN Exc("ValidationError", << "Content verification failed" >>)
           ELSE verify_saved_files(paths, i + 1, files, expected)

\* fault: the verification runs under _retry_operation
VerifyRetried ==
  /\ pc = "verify"
  /\ LET e == verify_saved_files(temp_paths, 1, temp_dir.files, checksum)
     IN  IF Raised(e) THEN FailedAttempt(e, e)
         ELSE Succeeded("move")
  /\ UNCHANGED << v_call, v_time, content_to_save, checksum, v_stage, v_final,
                  v_out, validated >>

\* fault: a failed verification is noted and the files are relocated all
\* the same
VerifyLogsOnly ==
  /\ pc = "verify"
  /\ LET e == verify_saved_files(temp_paths, 1, temp_dir.files, checksum)
     IN  /\ cause' = IF Raised(e) THEN [exc |-> e, at |-> pc] ELSE cause
         /\ pc' = "move"
         /\ UNCHANGED pending
  /\ UNCHANGED << v_call, v_time, content_to_save, checksum, v_stage, v_final,
                  v_retry, v_out, validated >>

Verify ==
  /\ pc = "verify"
  /\ LET e == verify_saved_files(temp_paths, 1, temp_dir.files, checksum)
     IN  IF Raised(e) THEN RaiseTo(e, e, "exit_scope")
         ELSE pc' = "move" /\ UNCHANGED << pending, cause >>
  /\ UNCHANGED << v_call, v_time, content_to_save, checksum, v_stage, v_final,
                  v_retry, v_out, validated >>

\* fault: the path is made absolute before it is returned
str_path_resolved(p) ==
  IF p.dir[1][1] = "/" THEN Join(<< "/" >>, p.dir \o << p.name >>)
  ELSE << "/", "c", "w", "d", "/" >> \o Join(<< "/" >>, p.dir \o << p.name >>)

\* str(final_path): the parts of the path joined with the separator; the
\* path is not resolved against the working directory
str_path(p) == Join(<< "/" >>, p.dir \o << p.name >>)

(***************************************************************************)
(* _move_to_final_location: shutil.move of each staged file, in the order  *)
(* of temp_paths, each under _retry_operation.                             *)
(***************************************************************************)
Move ==
  /\ pc = "move"
  /\ moves' = moves + 1
  /\ LET i   == Len(final_paths) + 1
         src == temp_paths[i].path
         dst == [dir |-> content_dir, name |-> src]
     IN  \E ok \in BOOLEAN :
           IF ok
           THEN /\ output_files' = Put(output_files, dst, temp_dir.files[src])
                /\ temp_dir' = [temp_dir EXCEPT !.files = Remove(@, src)]
                /\ final_paths' = Append(final_paths, [tag |-> temp_paths[i].tag, path |-> dst])
                /\ Succeeded(IF i = Len(temp_paths) THEN "backup" ELSE "move")
           ELSE /\ FailedAttempt(OSError, move_except(OSError))
                /\ UNCHANGED << output_files, temp_dir, final_paths >>
  /\ UNCHANGED << v_call, v_time, content_to_save, checksum, content_dir,
                  base_filename, temp_paths, corrupted, rm_failed, backup_files, v_out,
                  validated >>

\* fault: the copy goes to the backup directory itself, without the
\* directories of the date and the type
backup_path_flat(src) ==
  [dir |-> << << "b", "a", "c", "k", "u", "p" >> >>, name |-> src.name]

\* dst = self.backup_dir / src.relative_to(self.base_dir): the path of the
\* final file with the backup directory in the place of base_dir
backup_path(src) ==
  [dir |-> << << "b", "a", "c", "k", "u", "p" >> >> \o Tail(src.dir), name |-> src.name]

\* fault: a copy that fails is raised
BackupRaises ==
  /\ pc = "backup"
  /\ IF backup_dir
     THEN \E n \in 0..Len(final_paths) :
            LET copied == {final_paths[i].path : i \in 1..n}
            IN  /\ backup_files' =
                     [d \in DOMAIN backup_files \cup {backup_path(p) : p \in copied} |->
                        IF \E p \in copied : d = backup_path(p)
                        THEN output_files[CHOOSE p \in copied : d = backup_path(p)]
                        ELSE backup_files[d]]
                /\ pending' = IF n < Len(final_paths) THEN OSError ELSE pending
                /\ copy_failed' = (n < Len(final_paths))
     ELSE UNCHANGED << backup_files, pending, copy_failed >>
  /\ pc' = "exit_scope"
  /\ UNCHANGED << v_inst, entry, content, content_type, v_time,
                  content_to_save, checksum, v_stage,
                  output_files, final_paths, moves, v_retry, v_out,
                  cause, validated >>

(***************************************************************************)
(* _create_backup: copies the final files in order; the first failure ends *)
(* the loop and is logged, not raised.                                     *)
(***************************************************************************)
Backup ==
  /\ pc = "backup"
  /\ IF backup_dir
     THEN \E n \in 0..Len(final_paths) :
            LET copied == {final_paths[i].path : i \in 1..n}
            IN  /\ backup_files' =
                     [d \in DOMAIN backup_files \cup {backup_path(p) : p \in copied} |->
                        IF \E p \in copied : d = backup_path(p)
                        THEN output_files[CHOOSE p \in copied : d = backup_path(p)]
                        ELSE backup_files[d]]
                /\ copy_failed' = (n < Len(final_paths))
     ELSE UNCHANGED << backup_files, copy_failed >>
  /\ pc' = "exit_scope"
  /\ UNCHANGED << v_inst, entry, content, content_type, v_time,
                  content_to_save, checksum, v_stage,
                  output_files, final_paths, moves, v_retry, pending, v_out,
                  cause, validated >>

\* fault: the scratch directory is removed only when the scope ends without
\* an exception
ExitScopeOnSuccess ==
  /\ pc = "exit_scope"
  /\ \E ok \in BOOLEAN :
       /\ temp_dir' = IF temp_dir.exists /\ ok /\ ~Raised(pending)
                      THEN NoDir ELSE temp_dir
       /\ rm_failed' = (temp_dir.exists /\ ~ok /\ ~Raised(pending))
  /\ pc' = "deliver"
  /\ UNCHANGED << v_call, v_time, content_to_save, checksum, content_dir,
                  base_filename, temp_paths, corrupted, v_final, v_retry,
                  pending, v_out, cause, validated >>

\* fault: a removal that fails is raised
ExitScopeEscalates ==
  /\ pc = "exit_scope"
  /\ \E ok \in BOOLEAN :
       /\ temp_dir' = IF temp_dir.exists /\ ok THEN NoDir ELSE temp_dir
       /\ rm_failed' = (temp_dir.exists /\ ~ok)
       /\ pending' = IF ok THEN pending ELSE OSError
  /\ pc' = "deliver"
  /\ UNCHANGED << v_call, v_time, content_to_save, checksum, content_dir,
                  base_filename, temp_paths, corrupted, v_final, v_retry,
                  v_out, cause, validated >>

(***************************************************************************)
(* The end of the scope of safe_file_operation: shutil.rmtree of the       *)
(* scratch directory; its failure is logged, not raised.                   *)
(***************************************************************************)
ExitScope ==
  /\ pc = "exit_scope"
  /\ \E ok \in BOOLEAN :
       /\ temp_dir' = IF temp_dir.exists /\ ok THEN NoDir ELSE temp_dir
       /\ rm_failed' = (temp_dir.exists /\ ~ok)
  /\ pc' = "deliver"
  /\ UNCHANGED << v_call, v_time, content_to_save, checksum, content_dir,
                  base_filename, temp_paths, corrupted, v_final, v_retry,
                  pending, v_out, cause, validated >>

\* save_content ends: it returns final_paths, or its handler raises
Deliver ==
  /\ pc = "deliver"
  /\ IF Raised(pending)
     THEN /\ error' = save_content_except(pending)
          /\ sc_done' = "raised"
          /\ pc' = IF entry = "safe_save" THEN "ss_exit" ELSE "raised"
          /\ UNCHANGED result
     ELSE /\ result' = final_paths
          /\ sc_done' = "returned"
          /\ pc' = IF entry = "safe_save" THEN "ss_exit" ELSE "returned"
          /\ UNCHANGED error
  /\ UNCHANGED << v_call, v_time, content_to_save, checksum, v_stage, v_final,
                  v_retry, pending, ss_temp, ss_rm_failed, cause, validated >>

(***************************************************************************)
(* safe_save                                                               *)
(***************************************************************************)
\* with a backup directory configured: mkdtemp, then _create_temp_backup
\* writes content_backup.json; either may fail, and the exception goes to
\* the handler of safe_save
SafeSaveBackup ==
  /\ pc = "ss_backup"
  /\ IF ~backup_dir
     THEN pc' = "size" /\ UNCHANGED << ss_temp, error, cause >>
     ELSE \E outcome \in {"ok", "mkdtemp fails", "write fails"} :
            CASE outcome = "ok" ->
                   /\ ss_temp' =
                        [exists |-> TRUE,
                         files  |-> Put(NoFiles, << "c", "o", "n", "t", "e", "n", "t", "_", "b", "a", "c", "k", "u", "p", ".", "j", "s", "o", "n" >>,
                                        JsonFile(EnumJSONEncoder(content)))]
                   /\ pc' = "size"
                   /\ UNCHANGED << error, cause >>
              [] outcome = "mkdtemp fails" ->
                   /\ error' = OSError
                   /\ cause' = [exc |-> OSError, at |-> pc]
                   /\ pc' = "ss_exit"
                   /\ UNCHANGED ss_temp
              [] outcome = "write fails" ->
                   /\ ss_temp' = [exists |-> TRUE, files |-> NoFiles]
                   /\ error' = OSError
                   /\ cause' = [exc |-> OSError, at |-> pc]
                   /\ pc' = "ss_exit"
  /\ UNCHANGED << v_call, v_time, content_to_save, checksum, v_stage, v_final,
                  v_retry, pending, result, sc_done, ss_rm_failed, validated >>

\* fault: the temporary directory is removed only when safe_save returns
SafeSaveExitOnSuccess ==
  /\ pc = "ss_exit"
  /\ \E ok \in BOOLEAN :
       /\ ss_temp' = IF ss_temp.exists /\ ok /\ ~Raised(error) THEN NoDir ELSE ss_temp
       /\ ss_rm_failed' = (ss_temp.exists /\ ~ok /\ ~Raised(error))
  /\ pc' = IF Raised(error) THEN "raised" ELSE "returned"
  /\ UNCHANGED << v_call, v_time, content_to_save, checksum, v_stage, v_final,
                  v_retry, pending, error, result, sc_done, cause, validated >>

\* the handler and the finally of safe_save: _restore_from_backup only
\* reads the backup and its failure is logged; the exception is re-raised
\* as it is; the temporary directory is removed, a failure to remove it is
\* logged
SafeSaveExit ==
  /\ pc = "ss_exit"
  /\ \E ok \in BOOLEAN :
       /\ ss_temp' = IF ss_temp.exists /\ ok THEN NoDir ELSE ss_temp
       /\ ss_rm_failed' = (ss_temp.exists /\ ~ok)
  /\ pc' = IF Raised(error) THEN "raised" ELSE "returned"
  /\ UNCHANGED << v_call, v_time, content_to_save, checksum, v_stage, v_final,
                  v_retry, pending, error, result, sc_done, cause, validated >>

Next ==
  \/ Call
  \/ SizeCheck
  \/ Throttle
  \/ Validate
  \/ Checksum
  \/ Mkdtemp
  \/ GetContentDir
  \/ BaseFilename
  \/ SaveJson
  \/ SaveFormatted
  \/ SaveYaml
  \/ Corrupt
  \/ Verify
  \/ Move
  \/ Backup
  \/ ExitScope
  \/ Deliver
  \/ SafeSaveBackup
  \/ SafeSaveExit

Spec == Init /\ [][Next]_vars


(***************************************************************************)
(* _compute_checksum applied to two records, for the properties of the     *)
(* checksum alone.                                                         *)
(***************************************************************************)
\* records with the names of the volatile fields inside another field
NestedRecords ==
  LET inner == PyDict(<< Entry(PyStr(K_metadata), PyStr(<< "x" >>)),
                         Entry(PyStr(K_generation_time), PyStr(<< "x" >>)) >>)
  IN  {PyDict(<< Entry(PyStr(K_sections), inner) >> \o m) :
         m \in {<<>>, << Entry(PyStr(K_metadata), inner) >>}}

ProbeRecords == DictRecords(K_sections) \cup OtherRecords \cup NestedRecords

InitChecksum ==
  /\ InitManager
  /\ probe \in {[NoProbe EXCEPT !.r1 = a, !.r2 = b] : a, b \in ProbeRecords}

ComputeChecksums ==
  /\ ~probe.done
  /\ probe' = [probe EXCEPT !.n1 = normalize_content(probe.r1),
                            !.c1 = compute_checksum(probe.r1),
                            !.c2 = compute_checksum(probe.r2),
                            !.done = TRUE]
  /\ UNCHANGED << base_dir, backup_dir, copy_failed, last_save_time, clock, pc, entry, content,
                  content_type, content_to_save, checksum, v_stage, v_final,
                  v_retry, pending, v_out, cause, validated >>

SpecChecksum == InitChecksum /\ [][ComputeChecksums]_vars

(***************************************************************************)
(* Properties.                                                             *)
(***************************************************************************)
ArtifactTags == {"json", "formatted", "metadata"}

\* the tags of the call's artifacts that are in the final directory
FinalTags ==
  {temp_paths[i].tag : i \in {j \in 1..Len(temp_paths) :
      [dir |-> content_dir, name |-> temp_paths[j].path] \in DOMAIN output_files}}

\* C1: all-or-nothing persistence.  When save_content has raised, none of
\* the call's three artifacts is in the final directory; when it has
\* returned, all three are there.
C1_AllOrNothing ==
  /\ sc_done = "raised" => output_files = NoFiles
  /\ sc_done = "returned" => FinalTags = ArtifactTags

VerificationFailed ==
  cause = [exc |-> Exc("ValidationError", << "Content verification failed" >>),
           at  |-> "verify"]

\* the checksum of the JSON document in a file, or <<>> when it has none
FileChecksum(data) ==
  LET loaded == json_load(data)
  IN  IF Raised(loaded.exc) THEN <<>> ELSE compute_checksum(loaded.val).val

\* C2: when the verification of the staged files fails, because the
\* checksum of the staged JSON differs from the one computed before
\* staging, no relocation is attempted, no file of the call is in the final
\* directory, and save_content ends by raising; relocation starts only with
\* a staged JSON whose checksum is the expected one.
C2_FailedVerificationAborts ==
  /\ cause.at = "verify" =>
       /\ moves = 0
       /\ output_files = NoFiles /\ backup_files = NoFiles
       /\ pc \notin {"move", "backup", "returned"}
       /\ sc_done # "returned"
       /\ pc \in {"raised", "ss_exit"} => sc_done = "raised" /\ Raised(error)
  /\ pc = "move" /\ moves = 0 =>
       FileChecksum(temp_dir.files[temp_paths[1].path]) = checksum

C2_Witness ==
  /\ VerificationFailed
  /\ corrupted
  /\ pc = "raised"
  /\ sc_done = "raised"

\* the path save_content returned for a tag
ResultPath(tag) ==
  result[CHOOSE i \in 1..Len(result) : result[i].tag = tag].path

\* C3: round-trip integrity.  Whenever save_content has returned, the file
\* at the returned json path, read again, has the checksum that was
\* computed on the record before staging.
C3_RoundTrip ==
  sc_done = "returned" =>
    /\ \E i \in 1..Len(result) : result[i].tag = "json"
    /\ ResultPath("json") \in DOMAIN output_files
    /\ json_load(output_files[ResultPath("json")]).exc = NoExc
    /\ compute_checksum(json_load(output_files[ResultPath("json")]).val)
         = [exc |-> NoExc, val |-> checksum]
    /\ compute_checksum(content) = [exc |-> NoExc, val |-> checksum]

\* a record with two sections was saved, and its staged JSON had been
\* altered in a volatile field before the verification
C3_Witness ==
  /\ sc_done = "returned"
  /\ corrupted
  /\ HasKey(content, PyStr(K_sections))
  /\ Len(Lookup(content, PyStr(K_sections)).e) = 2

\* C4: for every record and content type that validate_content accepts,
\* save_content succeeds when no filesystem operation fails: a call that
\* raised after the validator accepted, with no staged file altered,
\* raised for a failure of the operating system.
C4_AcceptedRecordIsSaved ==
  validated /\ ~corrupted /\ sc_done = "raised" => cause.exc = OSError

\* the entries of a record that are not volatile
Stable(r) == {en \in {r.e[i] : i \in 1..Len(r.e)} :
                en.k \notin {volatile_fields[i] : i \in 1..Len(volatile_fields)}}

\* two records identical except for top-level generation_time and metadata
SameExceptVolatile(r1, r2) ==
  IF IsDict(r1) /\ IsDict(r2) THEN Stable(r1) = Stable(r2) ELSE r1 = r2

\* C5: checksum invariance under volatile fields.  For all records R1 and
\* R2 that are identical except for the top-level fields generation_time
\* and metadata, _compute_checksum(R1) equals _compute_checksum(R2).
C5_ChecksumIgnoresVolatile ==
  probe.done /\ SameExceptVolatile(probe.r1, probe.r2) => probe.c1 = probe.c2

\* two records with the same sections, one with metadata and a generation
\* time and one without, have been given a checksum
C5_Witness ==
  /\ probe.done
  /\ SameExceptVolatile(probe.r1, probe.r2)
  /\ HasKey(probe.r1, PyStr(K_sections))
  /\ HasKey(probe.r1, PyStr(K_metadata)) /\ ~HasKey(probe.r2, PyStr(K_metadata))
  /\ HasKey(probe.r1, PyStr(K_generation_time))
  /\ ~HasKey(probe.r2, PyStr(K_generation_time))
  /\ ~Raised(probe.c1.exc)
  /\ probe.c1.val # <<>>

\* the record is a non-empty dictionary with metadata, the content type has
\* a validator, and the field that validator requires is not in the record
MissingRequired ==
  /\ IsDict(content) /\ Truthy(content)
  /\ HasKey(content, PyStr(K_metadata))
  /\ content_type \in validators
  /\ ~HasKey(content, PyStr(RequiredField(content_type)))

\* C6, as stated: for each of the six content types, a record without the
\* required field makes validate_content raise ValidationError, and
\* save_content raise ValidationError too.
C6_SaveRaisesValidationError ==
  MissingRequired =>
    /\ validate_content(content, content_type).type = "ValidationError"
    /\ sc_done # "no" => sc_done = "raised" /\ error.type = "ValidationError"

\* C6, as the code has it: for each of the six content types, a record
\* without the required field makes validate_content raise ValidationError;
\* save_content never accepts or returns for it, and raises an OutputError
\* whose message is "Content save failed: " and the validator's message.
C6_MissingFieldRejected ==
  MissingRequired =>
    /\ validate_content(content, content_type).type = "ValidationError"
    /\ ~validated
    /\ sc_done # "returned"
    /\ sc_done = "raised" =>
         /\ cause = [exc |-> validate_content(content, content_type),
                     at  |-> "validate"]
         /\ error = Exc("OutputError",
                        << "Content save failed: " >>
                          \o validate_content(content, content_type).msg)

C6_Witness ==
  /\ MissingRequired
  /\ content_type = S_video_script
  /\ sc_done = "raised"
  /\ pc = "raised"

\* the shape the data model gives the required field of a content type
ShapeOK(v, kind) ==
  CASE kind = S_text         -> v.t = "str" /\ v.s # <<>>
    [] kind = S_carousel     -> IsList(v)
    [] kind = S_poll         -> IsList(v)
    [] kind = S_newsletter   -> IsDict(v)
    [] kind = S_document     -> IsDict(v)
    [] kind = S_video_script -> IsDict(v) /\ v.e # <<>>
    [] OTHER                 -> FALSE

\* C7: validate_content accepts a record that is a non-empty dictionary
\* with a metadata key if and only if the required field of the content
\* type is there and has the shape of the data model: text.content a
\* non-empty string, carousel.slides and poll.options lists,
\* newsletter.sections and document.sections dictionaries,
\* video_script.script a non-empty dictionary.
C7_AcceptsExactlyTheShapes ==
  IsDict(content) /\ Truthy(content) /\ HasKey(content, PyStr(K_metadata))
    /\ content_type \in validators =>
      (validate_content(content, content_type) = NoExc
         <=> /\ HasKey(content, PyStr(RequiredField(content_type)))
             /\ ShapeOK(Lookup(content, PyStr(RequiredField(content_type))),
                        content_type))

\* the call has passed the place where save_content validates
ValidationRan ==
  /\ pc \notin {"idle", "ss_backup", "size", "throttle", "validate"}
  /\ cause.at \notin {"ss_backup", "size"}

\* validate_content must reject: no dictionary, an empty one, one without
\* metadata, or a content type without a validator
MustReject ==
  \/ ~IsDict(content)
  \/ ~Truthy(content)
  \/ ~HasKey(content, PyStr(K_metadata))
  \/ content_type \notin validators

\* C8: validate_content raises ValidationError when the record is not a
\* dictionary, when it is empty, when it has no metadata key and when the
\* content type is not one of the six registered ones; whether it raises or
\* returns, the step that validates changes neither the record nor any
\* directory.
C8_RejectsWithoutSideEffect ==
  /\ [](pc # "idle" /\ MustReject =>
          /\ validate_content(content, content_type).type = "ValidationError"
          /\ ValidationRan =>
               /\ ~validated
               /\ cause = [exc |-> validate_content(content, content_type),
                           at  |-> "validate"])
  /\ [][Validate => UNCHANGED << content, content_type, temp_dir, output_files,
                                 backup_files, ss_temp >>]_vars

C8_Witness ==
  /\ IsDict(content) /\ Truthy(content) /\ HasKey(content, PyStr(K_metadata))
  /\ content_type \notin validators
  /\ cause.at = "validate"
  /\ cause.exc.type = "ValidationError"

\* the file safe_save writes before it calls save_content
Snapshot == << "c", "o", "n", "t", "e", "n", "t", "_", "b", "a", "c", "k", "u", "p", ".", "j", "s", "o", "n" >>

IsSuffix(a, b) ==
  Len(a) <= Len(b) /\ SubSeq(b, Len(b) - Len(a) + 1, Len(b)) = a

\* C10: every failure of save_content, whatever step it comes from, reaches
\* the caller as an OutputError whose message holds the message of the
\* exception that was raised first.
C10_RaisesOutputErrorWithCause ==
  sc_done = "raised" =>
    /\ error.type = "OutputError"
    /\ Raised(cause.exc)
    /\ cause.exc.msg # <<>>
    /\ error.msg[1] = "Content save failed: "
    /\ IsSuffix(cause.exc.msg, Tail(error.msg))

\* the relocation failed on its last attempt, after two handlers
C10_Witness ==
  /\ sc_done = "raised"
  /\ cause = [exc |-> OSError, at |-> "move"]
  /\ moves > MAX_RETRIES
  /\ pc = "raised"

(***************************************************************************)
(* _retry_operation called alone, with an operation whose outcome at each  *)
(* call is given beforehand: it returns, or it raises one of three         *)
(* exceptions.                                                             *)
(***************************************************************************)
InitRetry ==
  /\ InitManager
  /\ probe \in
       {[plan |-> p, calls |-> 0, slept |-> <<>>] :
          p \in [1..MAX_RETRIES + 1 ->
                   {NoExc, OSError,
                    Exc("PermissionError", << "[Errno 13] Permission denied" >>),
                    Exc("TimeoutError", << "timed out" >>)}]}

\* one round of the loop: operation(*args, **kwargs) is called; probe notes
\* the call and the time.sleep that follows it
RetryAttempt ==
  /\ pc = "idle"
  /\ probe.calls <= MAX_RETRIES
  /\ LET outcome == probe.plan[probe.calls + 1]
     IN  IF Raised(outcome) THEN FailedAttempt(outcome, outcome)
         ELSE Succeeded("returned")
  /\ probe' = [probe EXCEPT
                 !.calls = @ + 1,
                 !.slept = IF attempt' = attempt + 1
                           THEN @ \o SubSeq(waits', Len(waits) + 1, Len(waits'))
                           ELSE @]
  /\ UNCHANGED << base_dir, backup_dir, copy_failed, v_time, entry, content, content_type,
                  content_to_save, checksum, v_stage, v_final, v_out, validated >>

SpecRetry == InitRetry /\ [][RetryAttempt]_vars

\* the calls of the plan that raise, among the first n
Failing(n) == {i \in 1..n : Raised(probe.plan[i])}

\* C11: retry exhaustion.  An operation that fails on every call is called
\* by _retry_operation exactly MAX_RETRIES (3) times, with waits of 1 s and
\* then 2 s between the attempts (3 s in all) and no wait after the last
\* attempt, and then the exception of the last attempt propagates as it is.
C11_RetryExhaustion ==
  /\ Failing(MAX_RETRIES) = 1..MAX_RETRIES /\ probe.calls >= MAX_RETRIES =>
       /\ pc = "exit_scope"
       /\ probe.calls = MAX_RETRIES
       /\ probe.slept = << 10, 20 >>
       /\ pending = probe.plan[MAX_RETRIES]
       /\ cause.exc = probe.plan[MAX_RETRIES]
  /\ pc = "exit_scope" =>
       Failing(MAX_RETRIES) = 1..MAX_RETRIES /\ probe.calls = MAX_RETRIES

\* three calls raised three different exceptions, and the last one came out
C11_Witness ==
  /\ pc = "exit_scope"
  /\ probe.calls = 3
  /\ probe.plan[1] = OSError
  /\ probe.plan[2].type = "PermissionError"
  /\ probe.plan[3].type = "TimeoutError"
  /\ pending.type = "TimeoutError"

\* C12: _retry_operation stops at the first attempt that succeeds: an
\* operation that succeeds on attempt k (1 <= k <= 3) is called exactly k
\* times, with exactly k - 1 waits (1 s, then 2 s), none of them before the
\* first attempt, and _retry_operation returns; it raises only when none of
\* the three attempts succeeds.
C12_StopsAtFirstSuccess ==
  /\ \A k \in 1..MAX_RETRIES :
       Failing(k) = 1..(k - 1) /\ probe.calls >= k =>
         /\ pc = "returned"
         /\ probe.calls = k
         /\ probe.slept = [i \in 1..(k - 1) |-> wait_time(i - 1)]
         /\ ~Raised(pending)
  /\ probe.calls = 0 => probe.slept = <<>>
  /\ pc = "returned" =>
       ~Raised(probe.plan[probe.calls]) /\ Len(probe.slept) = probe.calls - 1
  /\ pc = "exit_scope" => \A k \in 1..MAX_RETRIES : Raised(probe.plan[k])

\* the operation failed twice and succeeded on the third attempt
C12_Witness ==
  /\ pc = "returned"
  /\ probe.calls = 3
  /\ probe.slept = << 10, 20 >>

(***************************************************************************)
(* A sequence of save_content calls on one OutputManager, as far as the    *)
(* rate limit goes: a call comes to the throttle, passes it, and the rest  *)
(* of the call takes some time.  Time passes between and inside the calls. *)
(***************************************************************************)
\* most calls in a sequence
MaxCalls == 3

\* most time, in tenths of a second, that passes in one step
MaxGap == 12

InitThrottle == InitManager /\ probe = [prev |-> 0, n |-> 0, at |-> 0]

\* save_content is called, some time after the call before it, with a record
\* that passes the size check; probe notes last_save_time as this call finds
\* it, and the time at which the call comes to the throttle
SaveAgain ==
  /\ pc = "idle"
  /\ probe.n < MaxCalls
  /\ \E gap \in 0..MaxGap : clock' = clock + gap
  /\ probe' = [prev |-> last_save_time, n |-> probe.n + 1, at |-> clock']
  /\ pc' = "throttle"
  /\ UNCHANGED << base_dir, backup_dir, copy_failed, last_save_time, entry, content, content_type,
                  content_to_save, checksum, v_stage, v_final, v_retry,
                  pending, v_out, cause, validated >>

\* the rest of the call, from the validation to the return or the raise,
\* takes its time and leaves last_save_time alone
RestOfSave ==
  /\ pc = "validate"
  /\ \E gap \in 0..MaxGap : clock' = clock + gap
  /\ pc' = "idle"
  /\ UNCHANGED << v_inst, copy_failed, last_save_time, entry, content, content_type,
                  content_to_save, checksum, v_stage, v_final, v_retry,
                  pending, v_out, cause, validated >>

NextThrottle == SaveAgain \/ Throttle \/ RestOfSave

SpecThrottle == InitThrottle /\ [][NextThrottle]_vars

\* C13: rate limiting.  In any sequence of save_content calls on one
\* OutputManager, the time at which a call passes the throttle (the new
\* last_save_time) is at least RATE_LIMIT_INTERVAL (1 s) after the time at
\* which the call before it did (the last_save_time the call found).
C13_RateLimit ==
  pc = "validate" =>
    /\ last_save_time - probe.prev >= RATE_LIMIT_INTERVAL
    /\ last_save_time = clock

\* the third call came 0.3 s after the second had passed the throttle, and
\* was held back to a full second
C13_Witness ==
  /\ pc = "validate"
  /\ probe.n = 3
  /\ last_save_time = probe.prev + RATE_LIMIT_INTERVAL
  /\ probe.prev > 1000

\* the call has left the scope of safe_file_operation
ScopeLeft ==
  /\ pc \in {"deliver", "raised", "returned", "ss_exit"}
  /\ cause.at \notin {"ss_backup", "size", "validate", "checksum", "mkdtemp"}

\* C14, as stated: after save_content has returned, and after it has raised
\* from any step inside the scope, the scratch directory no longer exists.
C14_ScratchGone ==
  ScopeLeft => ~temp_dir.exists

\* C14, as the code has it: on every way out of the scope, by return or by
\* an exception of a staged write, the verification or the relocation,
\* shutil.rmtree is called on the scratch directory; the directory and all
\* under it are gone afterwards unless that removal itself failed, and the
\* directory is there as long as the scope lasts.
C14_ScratchRemovedUnlessRmtreeFails ==
  /\ ScopeLeft /\ ~rm_failed => temp_dir = NoDir
  /\ rm_failed => ScopeLeft /\ temp_dir.exists
  /\ pc \in {"content_dir", "base_filename", "save_json", "save_formatted",
             "save_yaml", "verify", "move", "backup", "exit_scope"} =>
       temp_dir.exists

\* the verification failed with three files staged, and the scratch
\* directory is gone
C14_Witness ==
  /\ sc_done = "raised"
  /\ cause.at = "verify"
  /\ Len(temp_paths) = 3
  /\ temp_dir = NoDir

\* C15: a failure to remove the scratch directory never changes the outcome
\* of the save: a save that moved its three files still returns them, and
\* a save that fails still raises for its first failure, not for the
\* removal.
C15_CleanupFailureIsNotRaised ==
  rm_failed /\ sc_done # "no" =>
    /\ Len(final_paths) = 3 =>
         /\ sc_done = "returned" /\ ~Raised(error)
         /\ result = final_paths
         /\ FinalTags = ArtifactTags
    /\ Len(final_paths) < 3 =>
         /\ sc_done = "raised"
         /\ cause.at # "exit_scope"
         /\ error.type = "OutputError"
         /\ IsSuffix(cause.exc.msg, error.msg)

\* the removal failed and the save returned
C15_Witness ==
  /\ rm_failed
  /\ sc_done = "returned"
  /\ temp_dir.exists

\* a backup directory is configured and not all final files were copied
BackupFailed ==
  /\ backup_dir
  /\ pc \in {"exit_scope", "deliver", "raised", "returned", "ss_exit"}
  /\ Len(final_paths) = 3
  /\ DOMAIN backup_files # {backup_path(final_paths[i].path) : i \in 1..3}

\* C16: the backup is best-effort.  When a backup directory is configured
\* and a copy fails, save_content still returns the three final paths and
\* raises nothing, the three final files stay in place, and what was copied
\* is a copy of the final file.
C16_BackupBestEffort ==
  /\ BackupFailed =>
       /\ ~Raised(pending) /\ ~Raised(error)
       /\ FinalTags = ArtifactTags
       /\ sc_done # "no" => sc_done = "returned" /\ result = final_paths
  /\ \A d \in DOMAIN backup_files :
       \E p \in DOMAIN output_files :
         d = backup_path(p) /\ backup_files[d] = output_files[p]

\* one of the three files was copied, the next copy failed, and the save
\* returned
C16_Witness ==
  /\ BackupFailed
  /\ Cardinality(DOMAIN backup_files) = 1
  /\ sc_done = "returned"

\* what the format method of a content type makes of a record: [exc, text]
FormatMethod(c, kind) ==
  CASE kind = S_text         -> format_text(c)
    [] kind = S_carousel     -> format_carousel(c)
    [] kind = S_poll         -> format_poll(c)
    [] kind = S_newsletter   -> format_newsletter(c)
    [] kind = S_video_script -> format_video_script(c)
    [] kind = S_document     -> format_document(c)

ErrorBanner == << "#", " ", "E", "r", "r", "o", "r", " ", "F", "o", "r", "m", "a", "t", "t", "i", "n", "g", " ", "C", "o", "n", "t", "e", "n", "t", "\n", "\n", "O", "r", "i", "g", "i", "n", "a", "l", " ", "c", "o", "n", "t", "e", "n", "t", ":", "\n" >>

\* the text a formatter is to give: the method's text, or the error banner
\* and the record's string form when the method failed or gave no text
Rendering(c, kind) ==
  IF Raised(FormatMethod(c, kind).exc) \/ FormatMethod(c, kind).text = <<>>
  THEN ErrorBanner \o StrOf(c)
  ELSE FormatMethod(c, kind).text

\* C17: rendering never raises and never blocks a save.  For every content
\* type with a formatter and every record the formatter returns a text,
\* which is the fallback (error banner and the record's string form) when
\* the method failed or gave an empty text; in save_content the rendering
\* step raises for a failed write only, and the formatted file it stages
\* holds that text.
C17_RenderingNeverRaises ==
  /\ pc = "size" =>
       \A kind \in FORMATTERS :
         /\ formatter(content, kind) = Ok(Rendering(content, kind))
         /\ formatter(content, kind).text # <<>>
  /\ cause.at = "save_formatted" => cause.exc = OSError
  /\ \A i \in 1..Len(temp_paths) :
       temp_paths[i].tag = "formatted" /\ final_paths = <<>>
         /\ temp_paths[i].path \in DOMAIN temp_dir.files =>
           temp_dir.files[temp_paths[i].path]
             = TextFile(Rendering(content, content_type))

\* a carousel whose slide is no dictionary was rendered as the fallback and
\* saved
C17_Witness ==
  /\ sc_done = "returned"
  /\ content_type = S_carousel
  /\ Raised(format_carousel(content).exc)
  /\ output_files[ResultPath("formatted")]
       = TextFile(ErrorBanner \o StrOf(content))

(***************************************************************************)
(* _save_formatted called alone, for any record and content type, with a   *)
(* write that succeeds.                                                    *)
(***************************************************************************)
InitRender ==
  /\ InitManager
  /\ probe \in {[r1 |-> in[1], kind |-> in[2], out |-> Ok(<<>>), done |-> FALSE] :
                  in \in Inputs}

\* out is the text written, or the exception the handler raises
SaveFormattedAlone ==
  /\ ~probe.done
  /\ LET f == formatter(probe.r1, probe.kind)
     IN  probe' = [probe EXCEPT
                     !.out = IF Raised(f.exc)
                             THEN [exc |-> save_formatted_except(f.exc), text |-> <<>>]
                             ELSE f,
                     !.done = TRUE]
  /\ UNCHANGED << base_dir, backup_dir, copy_failed, v_time, pc, entry, content, content_type,
                  content_to_save, checksum, v_stage, v_final, v_retry,
                  pending, v_out, cause, validated >>

SpecRender == InitRender /\ [][SaveFormattedAlone]_vars

\* C18: when the formatted artifact is written for a content type that has
\* no formatter, the text renderer is used and the write completes with the
\* text rendering of the record; no error is raised.
C18_UnknownKindRendersAsText ==
  probe.done /\ probe.kind \notin FORMATTERS =>
    probe.out = Ok(Rendering(probe.r1, S_text))

(***************************************************************************)
(* _sanitize_filename applied to any short text.                           *)
(***************************************************************************)
\* longest text
MaxLen == 3

InitSanitize ==
  /\ InitManager
  /\ probe \in {[text |-> t, out |-> <<>>, done |-> FALSE] :
                  t \in SeqsUpTo({"A", "b", "1", " ", "-", "_", "/"}, MaxLen)}

SanitizeFilename ==
  /\ ~probe.done
  /\ probe' = [probe EXCEPT !.out = sanitize_filename(PyStr(probe.text)),
                            !.done = TRUE]
  /\ UNCHANGED << base_dir, backup_dir, copy_failed, v_time, pc, entry, content, content_type,
                  content_to_save, checksum, v_stage, v_final, v_retry,
                  pending, v_out, cause, validated >>

SpecSanitize == InitSanitize /\ [][SanitizeFilename]_vars

\* the characters a file name may hold
SafeChars ==
  {"a", "b", "c", "d", "e", "f", "g", "h", "i", "j", "k", "l", "m", "n", "o",
   "p", "q", "r", "s", "t", "u", "v", "w", "x", "y", "z",
   "0", "1", "2", "3", "4", "5", "6", "7", "8", "9", " ", "-", "_"}

\* the text with its capital letters in lower case and each character that
\* is not safe replaced by an underscore
Replaced(text) ==
  [i \in 1..Len(text) |->
     IF text[i] = "A" THEN "a"
     ELSE IF text[i] \in SafeChars THEN text[i] ELSE "_"]

\* C19, as stated: _sanitize_filename returns a non-empty string of
\* lower-case alphanumerics, spaces, hyphens and underscores, which is the
\* input with every other character replaced by an underscore, and
\* 'untitled' for the empty input and whenever that string is empty.
C19_ReplacedCharByChar ==
  probe.done =>
    /\ probe.out # <<>>
    /\ \A i \in 1..Len(probe.out) : probe.out[i] \in SafeChars
    /\ probe.out = IF Replaced(probe.text) = <<>> THEN S_untitled
                   ELSE Replaced(probe.text)

\* C19, as the code has it: the result is non-empty and made of safe
\* characters only; it is the input in lower case with every other
\* character replaced by an underscore and then the spaces at both ends
\* taken off; it is 'untitled' for the empty input and when nothing but
\* spaces is there.
C19_SanitizedAndStripped ==
  probe.done =>
    /\ probe.out # <<>>
    /\ \A i \in 1..Len(probe.out) : probe.out[i] \in SafeChars
    /\ IF \A i \in 1..Len(probe.text) : probe.text[i] = " "
       THEN probe.out = S_untitled
       ELSE /\ probe.out[1] # " " /\ probe.out[Len(probe.out)] # " "
            /\ \E i, j \in 1..Len(probe.text) :
                 /\ probe.out = SubSeq(Replaced(probe.text), i, j)
                 /\ \A k \in 1..Len(probe.text) :
                      k < i \/ k > j => probe.text[k] = " "

C19_Witness ==
  /\ probe.done
  /\ probe.text = << " ", "A", "/" >>
  /\ probe.out = << "a", "_" >>

(***************************************************************************)
(* The scenario of a short text record.                                    *)
(***************************************************************************)
\* {"content": "Hello world", "metadata": {"topic": "AI Trends"}}
HelloRecord ==
  PyDict(<< Entry(PyStr(K_content), PyStr(<< "H", "e", "l", "l", "o", " ", "w", "o", "r", "l", "d" >>)),
            Entry(PyStr(K_metadata),
                  PyDict(<< Entry(PyStr(K_topic), PyStr(<< "A", "I", " ", "T", "r", "e", "n", "d", "s" >>)) >>)) >>)

HelloSaved ==
  /\ content = HelloRecord
  /\ content_type = S_text
  /\ sc_done = "returned"

\* the returned artifacts are three files of the text directory, named
\* prefix, timestamp and .json, .txt, _meta.yaml; the .txt holds exactly
\* 'Hello world'; the JSON file read again has the checksum of the record
HelloFiles(prefix) ==
  /\ {result[i].tag : i \in 1..Len(result)} = {"json", "formatted", "metadata"}
  /\ Len(result) = 3
  /\ Cardinality(DOMAIN output_files) = 3
  /\ \A i \in 1..Len(result) :
       /\ result[i].path \in DOMAIN output_files
       /\ result[i].path.dir[1] = base_dir
       /\ result[i].path.dir[3] = << "t", "e", "x", "t" >>
  /\ ResultPath("json").name = prefix \o Timestamp(clock) \o << ".", "j", "s", "o", "n" >>
  /\ ResultPath("formatted").name = prefix \o Timestamp(clock) \o << ".", "t", "x", "t" >>
  /\ ResultPath("metadata").name = prefix \o Timestamp(clock) \o << "_", "m", "e", "t", "a", ".", "y", "a", "m", "l" >>
  /\ output_files[ResultPath("formatted")] = TextFile(<< "H", "e", "l", "l", "o", " ", "w", "o", "r", "l", "d" >>)
  /\ FileChecksum(output_files[ResultPath("json")]) = checksum
  /\ compute_checksum(HelloRecord) = [exc |-> NoExc, val |-> checksum]

\* C20, as stated: saving the text record {content: 'Hello world',
\* metadata: {topic: 'AI Trends'}} produces three files in the text
\* directory whose names start with 'ai_trends_' followed by the timestamp
\* (.json, .txt, _meta.yaml), the .txt file contains exactly 'Hello world',
\* and the JSON round-trip checksum matches.
C20_NamesStartWithAiUnderscoreTrends ==
  HelloSaved => HelloFiles(<< "a", "i", "_", "t", "r", "e", "n", "d", "s", "_" >>)

\* C20, as the code has it: the same, with names that start with
\* 'ai trends_', the space of the topic being kept.
C20_NamesStartWithAiSpaceTrends ==
  HelloSaved => HelloFiles(<< "a", "i", " ", "t", "r", "e", "n", "d", "s", "_" >>)

C20_Witness ==
  /\ HelloSaved
  /\ pc = "returned"
  /\ ResultPath("formatted") \in DOMAIN output_files
  /\ output_files[ResultPath("formatted")] = TextFile(<< "H", "e", "l", "l", "o", " ", "w", "o", "r", "l", "d" >>)

(***************************************************************************)
(* The layout of the output.                                               *)
(***************************************************************************)
\* the topic of the caller's record, 'untitled' without one
TopicOf(c) ==
  DictGet(DictGet(c, PyStr(K_metadata), PyDict(<<>>)), PyStr(K_topic), PyStr(S_untitled))

\* C21: the three artifacts of one successful save share one base filename
\* <sanitized-topic>_<timestamp> and lie in the same directory
\* <base>/<date>/<sanitized-kind>/, named <base>.json, <base>.txt when the
\* kind is text and <base>.md for every other kind, and <base>_meta.yaml.
C21_OutputLayout ==
  sc_done = "returned" =>
    LET base == sanitize_filename(TopicOf(content)) \o << "_" >> \o Timestamp(clock)
        dir  == << base_dir, IntChars(clock \div 864000),
                   sanitize_filename(PyStr(content_type)) >>
        file(suffix) == [dir |-> dir, name |-> base \o suffix]
    IN  /\ Len(result) = 3
        /\ \A i \in 1..3 : result[i].path \in DOMAIN output_files
        /\ ResultPath("json") = file(<< ".", "j", "s", "o", "n" >>)
        /\ ResultPath("formatted") =
             file(IF content_type = S_text THEN << ".", "t", "x", "t" >> ELSE << ".", "m", "d" >>)
        /\ ResultPath("metadata") = file(<< "_", "m", "e", "t", "a", ".", "y", "a", "m", "l" >>)

\* a record of another kind than text, with a topic, was saved
C21_Witness ==
  /\ sc_done = "returned"
  /\ content_type = S_poll
  /\ TopicOf(content) = PyStr(<< "A", "I", " ", "T", "r", "e", "n", "d", "s" >>)
  /\ ResultPath("formatted").name = << "a", "i", " ", "t", "r", "e", "n", "d", "s", "_" >> \o Timestamp(clock) \o << ".", "m", "d" >>

\* a path string that starts at the root
IsAbsolute(path) == path # <<>> /\ path[1] = "/"

\* the mapping save_content returned has exactly the three tags, each once,
\* and each path is a file of the output directory
ThreeFinalFiles ==
  /\ Len(result) = 3
  /\ {result[i].tag : i \in 1..Len(result)} = ArtifactTags
  /\ \A i \in 1..Len(result) : result[i].path \in DOMAIN output_files

\* C22, as stated: on successful return save_content yields a mapping with
\* exactly the three tags json, formatted and metadata, and each value is
\* the absolute path string of a file that exists in the final output
\* directory.
C22_ReturnsAbsolutePaths ==
  sc_done = "returned" =>
    /\ ThreeFinalFiles
    /\ \A i \in 1..Len(result) : IsAbsolute(str_path(result[i].path))

\* C22, as the code has it: the mapping has exactly the three tags, and
\* each value is the path string of an existing file of the final output
\* directory, formed from base_dir as it was given to the constructor: it
\* starts with base_dir, and it is absolute exactly when base_dir is.
C22_ReturnsPathsUnderBaseDir ==
  sc_done = "returned" =>
    /\ ThreeFinalFiles
    /\ \A i \in 1..Len(result) :
         LET path == str_path(result[i].path)
         IN  /\ Len(path) > Len(base_dir) + 1
             /\ SubSeq(path, 1, Len(base_dir) + 1) = base_dir \o << "/" >>
             /\ IsAbsolute(path) <=> IsAbsolute(base_dir)

\* a save under the relative base directory returned
C22_Witness ==
  /\ sc_done = "returned"
  /\ base_dir = << "o", "u", "t", "p", "u", "t" >>
  /\ Len(result) = 3
  /\ ~IsAbsolute(str_path(result[1].path))

\* C23: when a backup root is configured and no copy fails, after
\* save_content returns every final file at <base>/<rel> has a copy at
\* <backup>/<rel>, with the identical relative path and the same content.
C23_BackupMirror ==
  sc_done = "returned" /\ backup_dir /\ ~copy_failed =>
    \A i \in 1..Len(result) :
      LET final == result[i].path
          rel   == SubSeq(final.dir, 2, Len(final.dir))
          copy  == [dir |-> << << "b", "a", "c", "k", "u", "p" >> >> \o rel, name |-> final.name]
      IN  /\ final.dir[1] = base_dir
          /\ copy \in DOMAIN backup_files
          /\ final \in DOMAIN output_files
          /\ backup_files[copy] = output_files[final]

\* a save with a backup directory returned, and the three copies were made
C23_Witness ==
  /\ sc_done = "returned"
  /\ backup_dir
  /\ ~copy_failed
  /\ Len(result) = 3
  /\ Cardinality(DOMAIN backup_files) = 3

\* C24: save_content never modifies the record passed by the caller: from
\* the call on, whether it returns or raises, the caller's record stays
\* equal, at every nesting level, to what it was before the call.
C24_CallerRecordUntouched ==
  [][pc # "idle" => content' = content]_vars

\* a save of a record with both volatile fields returned, and the saved copy
\* is equal to the caller's record
C24_Witness ==
  /\ sc_done = "returned"
  /\ HasKey(content, PyStr(K_metadata))
  /\ HasKey(content, PyStr(K_generation_time))
  /\ content_to_save = content

\* an entry of a record whose key is not generation_time or metadata
KeptEntry(en) ==
  en.k # PyStr(<< "g", "e", "n", "e", "r", "a", "t", "i", "o", "n", "_", "t", "i", "m", "e" >>) /\ en.k # PyStr(<< "m", "e", "t", "a", "d", "a", "t", "a" >>)

\* C25: _normalize_content returns the record without exactly the top-level
\* keys generation_time and metadata (the whole metadata field), keeps every
\* other key and value as it was, including keys named generation_time or
\* metadata nested inside other fields, and leaves its input unchanged.
C25_NormalizeStripsTopLevelOnly ==
  /\ [](probe.done /\ IsDict(probe.r1) =>
          probe.n1 = PyDict(SelectSeq(probe.r1.e, KeptEntry)))
  /\ [][probe'.r1 = probe.r1]_vars

\* a record with both names inside the field sections and a metadata field
\* was normalized: the field is kept whole, metadata is gone
C25_Witness ==
  /\ probe.done
  /\ probe.r1 \in NestedRecords
  /\ HasKey(probe.r1, PyStr(K_metadata))
  /\ ~HasKey(probe.n1, PyStr(K_metadata))
  /\ HasKey(Lookup(probe.n1, PyStr(K_sections)), PyStr(K_metadata))
  /\ HasKey(Lookup(probe.n1, PyStr(K_sections)), PyStr(K_generation_time))

\* the first failure of the call was a rejection by validate_content or a
\* failed verification of the staged files
NotRetried == cause.at \in {"validate", "verify"}

\* C26: validation failures and checksum-verification failures are never
\* retried.  When validate_content rejects a record or the staged JSON fails
\* verification, the failing step is not run a second time, no retry
\* attempt is counted and no backoff wait is made, the time does not
\* advance, and save_content ends by raising an error that carries the
\* failure.
C26_NoRetryOfValidation ==
  /\ [](NotRetried =>
          /\ attempt = 0 /\ waits = <<>>
          /\ pc \notin {"validate", "verify"}
          /\ Raised(pending) \/ Raised(error)
          /\ sc_done # "returned"
          /\ sc_done = "raised" => IsSuffix(cause.exc.msg, error.msg))
  /\ [][NotRetried => clock' = clock /\ attempt' = 0 /\ waits' = <<>>]_vars

\* the staged JSON failed the verification and the save has raised
C26_Witness ==
  /\ cause.at = "verify"
  /\ cause.exc.type = "ValidationError"
  /\ sc_done = "raised"
  /\ error.type = "OutputError"
  /\ waits = <<>>

\* the first failure of the call came from encoding the record as JSON: in
\* json.dumps of the size check or of the checksum, or in the write of
\* _save_json
EncodingFailed ==
  /\ cause.at \in {"size", "checksum", "save_json"}
  /\ cause.exc.type \in {"TypeError", "UnicodeEncodeError"}

\* C27: a record that cannot be encoded is reported at once.  When the JSON
\* encoding of the record fails during a save, the failure is surfaced
\* without any retry attempt and without any backoff wait.
C27_EncodingFailureNotRetried ==
  EncodingFailed => attempt = 0 /\ waits = <<>>

\* C28: _compute_checksum fails with SerializationError when the record,
\* after normalization, contains a value that cannot be serialized.
C28_ChecksumRaisesSerializationError ==
  probe.done /\ ~DefaultEncodable(probe.n1) =>
    probe.c1.exc.type = "SerializationError"

(***************************************************************************)
(* save_content called with a record whose serialization is about as long  *)
(* as the limit.  The record is known by the length of json.dumps(content) *)
(* alone; the call is followed up to the validation.                       *)
(***************************************************************************)
\* most characters by which the serialization is under or over the limit
SizeMargin == 60

InitSize ==
  /\ InitManager
  /\ probe \in {[size |-> MAX_CONTENT_SIZE - SizeMargin + k] : k \in 0..(2 * SizeMargin)}

\* the call and its size check
SaveLarge ==
  /\ pc = "idle"
  /\ entry' = "save_content"
  /\ LET tooBig == Exc("ValidationError",
                       << "Content size (", "{content_size}", " bytes) exceeds limit" >>)
     IN  IF size_exceeds(probe.size)
         THEN /\ cause' = [exc |-> tooBig, at |-> "size"]
              /\ pending' = tooBig
              /\ pc' = "deliver"
         ELSE pc' = "throttle" /\ UNCHANGED << pending, cause >>
  /\ UNCHANGED << v_inst, copy_failed, content, content_type, v_time,
                  content_to_save, checksum, v_stage, v_final, v_retry, v_out,
                  validated >>

NextSize == SaveLarge \/ Throttle \/ Deliver

SpecSize == InitSize /\ [][NextSize]_vars

\* nothing of the call beyond the size check has happened
OnlySizeChecked ==
  /\ last_save_time = 0 /\ clock = 1000
  /\ ~validated
  /\ temp_dir = NoDir /\ output_files = NoFiles /\ backup_files = NoFiles

\* C29, as stated: save_content rejects a record whose serialized size
\* exceeds MAX_CONTENT_SIZE (10 MiB) with a ValidationError, before
\* throttling, validation or any write; a record whose serialized size is
\* exactly the maximum is not rejected by this check.
C29_RejectsWithValidationError ==
  /\ MAX_CONTENT_SIZE = 10 * 1024 * 1024
  /\ pc # "idle" /\ probe.size > MAX_CONTENT_SIZE =>
       /\ OnlySizeChecked
       /\ pc \in {"deliver", "raised"}
       /\ pc = "raised" => error.type = "ValidationError"
  /\ pc # "idle" /\ probe.size <= MAX_CONTENT_SIZE =>
       cause = NoCause /\ pc \in {"throttle", "validate"}

\* C29, as the code has it: the same, the error that reaches the caller
\* being an OutputError whose message ends with the message of the
\* ValidationError raised by the check.
C29_RejectsOversizeFirst ==
  /\ MAX_CONTENT_SIZE = 10 * 1024 * 1024
  /\ pc # "idle" /\ probe.size > MAX_CONTENT_SIZE =>
       /\ OnlySizeChecked
       /\ pc \in {"deliver", "raised"}
       /\ cause.at = "size" /\ cause.exc.type = "ValidationError"
       /\ pc = "raised" =>
            /\ error.type = "OutputError"
            /\ IsSuffix(cause.exc.msg, error.msg)
  /\ pc # "idle" /\ probe.size <= MAX_CONTENT_SIZE =>
       cause = NoCause /\ pc \in {"throttle", "validate"}

\* a record one character over the limit was rejected
C29_Witness ==
  /\ probe.size = MAX_CONTENT_SIZE + 1
  /\ pc = "raised"
  /\ error.type = "OutputError"

(***************************************************************************)
(* Two save_content calls running at the same time, in two OutputManager   *)
(* instances or processes, as far as the scratch directories go: each call *)
(* takes its directory from tempfile.mkdtemp(), stages its three files     *)
(* there under the same names as the other call, verifies them and leaves  *)
(* the scope, which removes the directory.  probe.dirs is the directory of *)
(* temporary files of the system, probe.call the two calls.  A staged file *)
(* is known by its name and by the call that wrote it.  The relocation to  *)
(* the final directory is outside this specification.                      *)
(***************************************************************************)
TempNames == {"tmpa", "tmpb", "tmpc"}

StagedNames == << "json", "formatted", "metadata" >>

\* fault: every call stages in one fixed directory
mkdtemp_shared(dirs) == {"tmpa"}

\* tempfile.mkdtemp(): the names it may return, those of no existing entry
mkdtemp(dirs) == {n \in TempNames : ~dirs[n].exists}

InitStaging ==
  /\ InitManager
  /\ probe = [dirs |-> [n \in TempNames |-> [exists |-> FALSE, files |-> {}]],
              call |-> [c \in 1..2 |->
                          [pc |-> "start", dir |-> "none", n |-> 0, seen |-> {}]]]

\* a step of the two calls changes probe alone
StagingFrame ==
  UNCHANGED << base_dir, backup_dir, copy_failed, v_time, pc, entry, content,
               content_type, content_to_save, checksum, v_stage, v_final,
               v_retry, pending, v_out, cause, validated >>

\* safe_file_operation is entered: mkdtemp makes a directory that did not
\* exist
MkdtempOf(c) ==
  /\ probe.call[c].pc = "start"
  /\ \E n \in mkdtemp(probe.dirs) :
       probe' = [probe EXCEPT !.dirs[n] = [exists |-> TRUE, files |-> {}],
                              !.call[c].dir = n,
                              !.call[c].pc = "stage"]
  /\ StagingFrame

\* _save_all_formats writes the next file to temp_dir / name, replacing a
\* file of that name; the write fails when the filesystem fails or the
\* directory is not there
StageOf(c) ==
  /\ probe.call[c].pc = "stage"
  /\ LET me   == probe.call[c]
         name == StagedNames[me.n + 1]
     IN  \E ok \in BOOLEAN :
           IF ok /\ probe.dirs[me.dir].exists
           THEN probe' =
                  [probe EXCEPT
                     !.dirs[me.dir].files =
                        {f \in @ : f.name # name} \cup {[name |-> name, by |-> c]},
                     !.call[c].n = me.n + 1,
                     !.call[c].pc = IF me.n + 1 = 3 THEN "verify" ELSE "stage"]
           ELSE probe' = [probe EXCEPT !.call[c].pc = "cleanup"]
  /\ StagingFrame

\* _verify_saved_files reads the files at the paths the call staged
VerifyOf(c) ==
  /\ probe.call[c].pc = "verify"
  /\ LET me == probe.call[c]
     IN  probe' = [probe EXCEPT
                     !.call[c].seen =
                        {f \in probe.dirs[me.dir].files :
                           \E i \in 1..3 : f.name = StagedNames[i]},
                     !.call[c].pc = "cleanup"]
  /\ StagingFrame

\* the scope ends: shutil.rmtree(temp_dir) if it exists; a failure is logged
CleanupOf(c) ==
  /\ probe.call[c].pc = "cleanup"
  /\ LET me == probe.call[c]
     IN  \E ok \in BOOLEAN :
           probe' = [probe EXCEPT
                       !.dirs[me.dir] =
                          IF @.exists /\ ok THEN [exists |-> FALSE, files |-> {}] ELSE @,
                       !.call[c].pc = "done"]
  /\ StagingFrame

NextStaging ==
  \E c \in 1..2 : MkdtempOf(c) \/ StageOf(c) \/ VerifyOf(c) \/ CleanupOf(c)

SpecStaging == InitStaging /\ [][NextStaging]_vars

\* the call is inside the scope of safe_file_operation
InScope(c) == probe.call[c].pc \in {"stage", "verify", "cleanup"}

\* C30: staging isolation.  For two save calls running concurrently, the
\* scratch directories are distinct, and no write, verification or cleanup
\* of one call reads, changes or removes a staged file of the other: while
\* a call is inside its scope its directory exists and holds exactly the
\* files that call has staged, and its verification has read only those.
C30_StagingIsolation ==
  /\ InScope(1) /\ InScope(2) => probe.call[1].dir # probe.call[2].dir
  /\ \A c \in 1..2 :
       /\ InScope(c) =>
            /\ probe.dirs[probe.call[c].dir].exists
            /\ probe.dirs[probe.call[c].dir].files =
                 {[name |-> StagedNames[i], by |-> c] : i \in 1..probe.call[c].n}
       /\ probe.call[c].pc \in {"cleanup", "done"} /\ probe.call[c].n = 3 =>
            probe.call[c].seen = {[name |-> StagedNames[i], by |-> c] : i \in 1..3}

\* one call has staged its three files and verified them while the other
\* call, which staged two files, has already removed its directory
C30_Witness ==
  /\ probe.call[1].pc = "cleanup" /\ probe.call[1].n = 3
  /\ Cardinality(probe.call[1].seen) = 3
  /\ probe.call[2].pc = "done" /\ probe.call[2].n = 2
  /\ ~probe.dirs[probe.call[2].dir].exists

(***************************************************************************)
(* Termination: the call goes on as long as a step is possible; nothing    *)
(* outside can hold it.                                                    *)
(***************************************************************************)
\* a public operation is called with a text record, with a newsletter of
\* two sections, or with no record
CallSome ==
  /\ pc = "idle"
  /\ \E e \in {"save_content", "safe_save"},
        in \in {<< PyDict(<< Entry(PyStr(K_content), PyStr(<< "a" >>)),
                             Entry(PyStr(K_metadata), PyDict(<<>>)) >>), S_text >>,
                << PyDict(<< Entry(PyStr(K_sections),
                                   PyDict(<< Entry(PyStr(<< "i", "n", "t", "r", "o" >>), PyStr(<< "x" >>)),
                                             Entry(PyStr(<< "b", "o", "d", "y" >>), PyStr(<< "x" >>)) >>)),
                             Entry(PyStr(K_metadata), PyDict(<<>>)) >>), S_newsletter >>,
                << None, S_text >>} :
       /\ entry' = e
       /\ content' = in[1]
       /\ content_type' = in[2]
       /\ pc' = IF e = "safe_save" THEN "ss_backup" ELSE "size"
  /\ UNCHANGED << v_inst, copy_failed, v_time, content_to_save, checksum, v_stage,
                  v_final, v_retry, pending, v_out, cause, validated >>

NextLive ==
  \/ CallSome
  \/ SizeCheck
  \/ Throttle
  \/ Validate
  \/ Checksum
  \/ Mkdtemp
  \/ GetContentDir
  \/ BaseFilename
  \/ SaveJson
  \/ SaveFormatted
  \/ SaveYaml
  \/ Corrupt
  \/ Verify
  \/ Move
  \/ Backup
  \/ ExitScope
  \/ Deliver
  \/ SafeSaveBackup
  \/ SafeSaveExit

SpecLive == Init /\ [][NextLive]_vars /\ WF_vars(NextLive)

\* the steps that run under _retry_operation
RetriedSteps == {"save_json", "save_formatted", "save_yaml", "move"}

\* C32: termination.  Every save_content call eventually returns or raises,
\* whatever filesystem operations fail; each of the three staged writes and
\* each of the three relocations is attempted at most 3 times: no attempt
\* follows the third, a call that stays at a write or at the relocation of
\* one file has counted a failed attempt, and at most 9 moves are tried.
C32_Termination ==
  /\ <>(pc \in {"returned", "raised"})
  /\ [](attempt < MAX_RETRIES /\ Len(waits) = attempt /\ moves <= 3 * MAX_RETRIES)
  /\ [][(pc \in RetriedSteps /\ pc' = pc /\ final_paths' = final_paths
           /\ temp_dir' = temp_dir)
          => (attempt' = attempt + 1)]_vars

\* the third attempt of the last relocation failed after eight other moves,
\* and the call has raised
C32_Witness ==
  /\ pc = "raised"
  /\ cause.at = "move"
  /\ moves = 3 * MAX_RETRIES
  /\ attempt = MAX_RETRIES - 1

(***************************************************************************)
(* The order of the steps of save_content.                                 *)
(***************************************************************************)
\* the steps of one call in the order of the code of save_content
StepSeq ==
  << "idle", "ss_backup", "size", "throttle", "validate", "checksum", "mkdtemp",
     "content_dir", "base_filename", "save_json", "save_formatted", "save_yaml",
     "verify", "move", "backup", "exit_scope", "deliver", "ss_exit", "returned" >>

StepRank(p) ==
  IF p = "raised" THEN Len(StepSeq)
  ELSE CHOOSE i \in 1..Len(StepSeq) : StepSeq[i] = p

\* the steps of the claim, from the size check to the backup
OrderedSteps == {StepSeq[i] : i \in 4..15}

\* C33: the steps of save_content happen in the order size check, throttle,
\* validation, checksum, scratch acquisition, staged writes (json, formatted,
\* metadata), verification, relocation, backup: a call only moves forward,
\* and it enters each of these steps from the step before it and from no
\* other; a file comes into the final directory only in the relocation,
\* which is entered only by a verification that found no fault, and the
\* backup is entered, and backup files are written, only when all three
\* relocations have succeeded.
C33_StepOrder ==
  [][ /\ (pc' # pc) => (StepRank(pc') > StepRank(pc))
      /\ (pc' # pc /\ pc' \in OrderedSteps) => (StepRank(pc') = StepRank(pc) + 1)
      /\ (pc' = "throttle") => (pc = "size")
      /\ (output_files' # output_files) => (pc = "move")
      /\ (pc' = "move" /\ pc # "move") =>
           /\ pc = "verify"
           /\ verify_saved_files(temp_paths, 1, temp_dir.files, checksum) = NoExc
           /\ output_files = NoFiles
      /\ (pc' = "backup") => (pc = "move" /\ Len(final_paths') = 3)
      /\ (backup_files' # backup_files) => (pc = "backup" /\ Len(final_paths) = 3)
    ]_vars

\* a call with a backup directory returned: it went through every step, and
\* the backup holds copies
C33_Witness ==
  /\ pc = "returned"
  /\ Len(result) = 3
  /\ backup_files # NoFiles
  /\ validated

\* C34: transient filesystem faults are absorbed.  A call of save_content
\* that raised because a write or a move failed has seen that one operation
\* fail MAX_RETRIES times in a row (two waits lie behind it); so when every
\* write and every move fails at most twice in a row, no such failure is
\* raised, and the call that returns hands back the three final paths, whose
\* files are in the final directory.
C34_TransientFaultsAbsorbed ==
  /\ (sc_done = "raised" /\ cause.at \in RetriedSteps /\ cause.exc = OSError) =>
       /\ attempt = MAX_RETRIES - 1
       /\ Len(waits) = MAX_RETRIES - 1
  /\ sc_done = "returned" =>
       /\ Len(result) = 3
       /\ \A i \in 1..3 : result[i].path \in DOMAIN output_files

\* each of the three moves failed twice and succeeded at the third attempt,
\* and save_content returned
C34_Witness ==
  /\ sc_done = "returned"
  /\ moves = 3 * MAX_RETRIES
  /\ Len(result) = 3

\* the staged JSON document at the time of the verification, and the JSON
\* form of the validated record
StagedDoc == temp_dir.files[temp_paths[1].path].doc

\* all three staged files are there and the first holds a JSON object
VerifyReadsJson ==
  /\ pc = "verify"
  /\ \A i \in 1..Len(temp_paths) : temp_paths[i].path \in DOMAIN temp_dir.files
  /\ temp_dir.files[temp_paths[1].path].fmt = "json"
  /\ IsDict(StagedDoc)

\* C35: verification strength.  When the verification reads the staged
\* JSON, it accepts it exactly when the document differs from the JSON form
\* of the validated record at most in the top-level fields metadata and
\* generation_time: such a document passes, and a document with a
\* difference in another top-level field fails.
C35_VerificationStrength ==
  VerifyReadsJson =>
    ((verify_saved_files(temp_paths, 1, temp_dir.files, checksum) = NoExc)
       <=> SameExceptVolatile(StagedDoc, EnumJSONEncoder(content_to_save)))

\* every key of every mapping of v is a str
RECURSIVE StrKeyed(_)
StrKeyed(v) ==
  CASE v.t = "dict" -> \A i \in 1..Len(v.e) : v.e[i].k.t = "str" /\ StrKeyed(v.e[i].v)
    [] v.t = "list" -> \A i \in 1..Len(v.e) : StrKeyed(v.e[i].v)
    [] OTHER        -> TRUE

\* the same statement for the records all of whose mapping keys are str
C35_ForStrKeys ==
  (VerifyReadsJson /\ StrKeyed(content_to_save)) =>
    ((verify_saved_files(temp_paths, 1, temp_dir.files, checksum) = NoExc)
       <=> SameExceptVolatile(StagedDoc, EnumJSONEncoder(content_to_save)))

\* C36: the throttle delays a save only when needed.  A call that comes to
\* the throttle when at least RATE_LIMIT_INTERVAL has passed since the call
\* before it passed the throttle, and the first call of a fresh instance,
\* does not wait; any other call waits exactly the rest of the interval, and
\* no call waits longer than the interval.
C36_ThrottleWaitsOnlyWhenNeeded ==
  pc = "validate" =>
    LET waited  == clock - probe.at
        elapsed == probe.at - probe.prev
    IN  /\ elapsed >= RATE_LIMIT_INTERVAL => waited = 0
        /\ elapsed < RATE_LIMIT_INTERVAL => waited = RATE_LIMIT_INTERVAL - elapsed
        /\ probe.n = 1 => waited = 0
        /\ waited <= RATE_LIMIT_INTERVAL

\* the third call came 0.3 s after the second had passed the throttle and
\* has waited 0.7 s
C36_Witness ==
  /\ pc = "validate"
  /\ probe.n = 3
  /\ probe.at - probe.prev = 3
  /\ clock - probe.at = 7

\* C37: the effect of a save on the rate-limiter state.  last_save_time is
\* written by the throttle step alone, which sets it to the time at which
\* the call leaves the throttle; the size check leaves it as it was, so a
\* call that ended at the size check leaves the value of the construction,
\* and every call that passed the size check has the new value when it ends,
\* whether it returned or failed in validation, staging, verification or
\* relocation.
C37_RateLimiterState ==
  /\ [][ /\ (pc = "size") => (last_save_time' = last_save_time)
         /\ (last_save_time' # last_save_time) =>
              (pc = "throttle" /\ last_save_time' = clock')
       ]_vars
  /\ [](cause.at \in {"size", "ss_backup"} => last_save_time = 0)
  /\ []((sc_done # "no" /\ cause.at \notin {"size", "ss_backup"}) =>
          (last_save_time = clock /\ last_save_time # 0))

\* a call failed in the verification, and last_save_time is the time of its
\* throttle
C37_Witness ==
  /\ sc_done = "raised"
  /\ cause.at = "verify"
  /\ last_save_time = clock
  /\ last_save_time # 0

\* safe_save has ended after its call of save_content ended
SafeSaveEnded == entry = "safe_save" /\ pc \in {"returned", "raised"}

\* what safe_save hands on is what save_content ended with, and the steps of
\* safe_save itself write nothing under the output and backup directories
SafeSaveHandsOn ==
  /\ [](SafeSaveEnded /\ sc_done = "returned" =>
          pc = "returned" /\ result = final_paths)
  /\ [](SafeSaveEnded /\ sc_done = "raised" =>
          pc = "raised" /\ error = save_content_except(pending))
  /\ [][(pc \in {"ss_backup", "ss_exit"}) =>
          (UNCHANGED << output_files, backup_files, result, sc_done >>)]_vars
  /\ [][(pc = "ss_exit") => (error' = error)]_vars

\* C40, as stated: safe_save returns exactly what save_content returns,
\* re-raises the failure of save_content unchanged, leaves the final output
\* directory in the state save_content left it, and always removes its own
\* temporary backup directory, on success and on failure.
C40_SafeSaveTransparent ==
  /\ SafeSaveHandsOn
  /\ [](SafeSaveEnded => ~ss_temp.exists)

\* C40, as the code has it: the same, the temporary backup directory being
\* gone when safe_save ends unless its removal itself failed, in which case
\* the failure is logged and the directory stays.
C40_SafeSaveTransparentUnlessRmtreeFails ==
  /\ SafeSaveHandsOn
  /\ [](SafeSaveEnded => (ss_temp.exists <=> ss_rm_failed))

\* safe_save with a backup directory re-raised the failure of save_content
\* and has removed its temporary directory
C40_Witness ==
  /\ SafeSaveEnded
  /\ backup_dir
  /\ sc_done = "raised"
  /\ pc = "raised"
  /\ ~ss_temp.exists /\ ~ss_rm_failed
  /\ error.type = "OutputError"

(***************************************************************************)
(* A sequence of save_content calls on one OutputManager, each with all    *)
(* its steps.  Time passes between the calls and inside them, before each  *)
(* reading of the clock: time.time() in the throttle, datetime.now() in    *)
(* _get_content_dir and datetime.now() for the timestamp of the file name. *)
(* The first call is made shortly before midnight.                         *)
(***************************************************************************)
\* most calls in the sequence
MaxSaves == 2

\* most time, in tenths of a second, that passes outside the sleeps
MaxDrift == 12

\* the time of the construction: 1.1 s before the end of the first day
StartSeq == 864000 - 11

InitSeq == NewManager(StartSeq) /\ probe = [n |-> 0, saved |-> << >>]

\* the steps before which the clock is read
ClockReads == {"size", "content_dir", "base_filename"}

\* a tenth of a second passes
Wait ==
  /\ pc \in ClockReads
  /\ clock - StartSeq < MaxDrift
  /\ clock' = clock + 1
  /\ UNCHANGED << v_call, last_save_time, pc, content_to_save, checksum, v_stage,
                  v_final, v_retry, pending, v_out, cause, validated >>

\* save_content is called, for the first time or after the call before it
\* has ended, with the same text record of no topic; probe keeps what the
\* calls before it returned.  The instance, the clock and the directories
\* stay, everything that belongs to one call starts afresh.
SaveNext ==
  /\ pc \in {"idle", "returned", "raised"}
  /\ probe.n < MaxSaves
  /\ probe' = [n     |-> probe.n + 1,
               saved |-> IF pc = "returned" THEN Append(probe.saved, result)
                         ELSE probe.saved]
  /\ entry' = "save_content"
  /\ content' = PyDict(<< Entry(PyStr(K_content), PyStr(<< "a" >>)),
                          Entry(PyStr(K_metadata), PyDict(<<>>)) >>)
  /\ content_type' = S_text
  /\ pc' = "size"
  /\ content_to_save' = None
  /\ checksum' = <<>>
  /\ temp_dir' = NoDir
  /\ content_dir' = <<>>
  /\ base_filename' = <<>>
  /\ temp_paths' = <<>>
  /\ final_paths' = <<>>
  /\ moves' = 0
  /\ attempt' = 0
  /\ waits' = <<>>
  /\ pending' = NoExc
  /\ error' = NoExc
  /\ result' = <<>>
  /\ sc_done' = "no"
  /\ corrupted' = FALSE
  /\ rm_failed' = FALSE
  /\ cause' = NoCause
  /\ validated' = FALSE
  /\ copy_failed' = FALSE
  /\ UNCHANGED << base_dir, backup_dir, v_time, output_files, backup_files, ss_temp,
                  ss_rm_failed >>

NextSeq ==
  \/ SaveNext
  \/ Wait
  \/ SizeCheck
  \/ Throttle
  \/ Validate
  \/ Checksum
  \/ Mkdtemp
  \/ GetContentDir
  \/ BaseFilename
  \/ SaveJson
  \/ SaveFormatted
  \/ SaveYaml
  \/ Verify
  \/ Move
  \/ Backup
  \/ ExitScope
  \/ Deliver

SpecSeq == InitSeq /\ [][NextSeq]_vars

\* the final paths of a result
PathsOf(res) == {res[i].path : i \in 1..Len(res)}

RECURSIVE DigitsValue(_)
DigitsValue(cs) ==
  IF cs = <<>> THEN 0
  ELSE 10 * DigitsValue(SubSeq(cs, 1, Len(cs) - 1)) + (Ord(cs[Len(cs)]) - 48)

\* the time, in whole seconds, that the timestamp at the end of a base file
\* name stands for
StampOf(name) ==
  LET i == CHOOSE i \in 1..Len(name) :
             name[i] = "_" /\ \A j \in (i + 1)..Len(name) : name[j] # "_"
  IN  DigitsValue(SubSeq(name, i + 1, Len(name)))

\* C39: the date of the partition directory and the date part of the
\* timestamp in the file name of one save agree: once the file name is made,
\* the day of the directory is the day of the timestamp, also when the clock
\* advances between the steps of the save.
C39_DatesAgree ==
  (content_dir # <<>> /\ base_filename # <<>>) =>
    content_dir[2] = IntChars(StampOf(base_filename) \div 86400)

(***************************************************************************)
(* Two saves running at the same time, in two OutputManager instances or   *)
(* processes with the same base directory, as far as the final directory   *)
(* goes: each constructs its manager, makes <base>/<date>/<kind> and moves *)
(* its three staged files there.  probe.dirs is the set of the directories *)
(* that exist, each the sequence of its parts; probe.files gives, for each *)
(* final file, the call whose content it holds; probe.call is the two      *)
(* calls.  One step is one call of the operating system: os.mkdir, as      *)
(* Path.mkdir issues it, or one move.  No operation fails for a reason     *)
(* other than what the other call did.                                     *)
(***************************************************************************)
\* <base>/<date>/<kind> of both saves
shared_dir == << << "o", "u", "t", "p", "u", "t" >>, << "0" >>, << "t", "e", "x", "t" >> >>

\* the directory of the first k parts of shared_dir
Ancestor(k) == SubSeq(shared_dir, 1, k)

\* the base file names of the two saves differ
base_filename_of(c) == IF c = 1 THEN << "a", "_", "1", "0", "0" >> ELSE << "b", "_", "1", "0", "0" >>

\* the names of the three staged files of a call, in the order of the moves
staged_names(c) ==
  << base_filename_of(c) \o << ".", "j", "s", "o", "n" >>,
     base_filename_of(c) \o << ".", "t", "x", "t" >>,
     base_filename_of(c) \o << "_", "m", "e", "t", "a", ".", "y", "a", "m", "l" >> >>

\* fault: a directory that is there already is an error
exist_ok_false == FALSE

\* the exist_ok=True of the calls of mkdir
exist_ok == TRUE

\* Path.mkdir(parents, exist_ok) of Ancestor(k), as a frame of pending work
MkdirFrame(k, parents) == [k |-> k, parents |-> parents]

\* raced: a directory the call found missing was there when it came to make it
NoCall == [pc |-> "init", stack |-> << >>, n |-> 0, raced |-> FALSE]

\* the directories that are there before the two calls: none, or the base
\* directory and some of the directories under it, left by earlier saves
InitShared ==
  /\ InitManager
  /\ \E k \in 0..Len(shared_dir) :
       probe = [dirs  |-> {Ancestor(j) : j \in 1..k},
                files |-> [p \in {} |-> 0],
                call  |-> [c \in {1, 2} |-> NoCall]]

SharedFrame ==
  UNCHANGED << base_dir, backup_dir, entry, content, content_type, copy_failed,
               v_time, pc, content_to_save, checksum, v_stage, v_final, v_retry,
               pending, v_out, cause, validated >>

\* OutputManager(): _setup_directories asks for base_dir.mkdir(exist_ok=True)
SetupOf(c) ==
  /\ probe.call[c].pc = "init"
  /\ probe' = [probe EXCEPT !.call[c].pc = "setup",
                            !.call[c].stack = << MkdirFrame(1, FALSE) >>]
  /\ SharedFrame

\* _get_content_dir asks for content_dir.mkdir(parents=True, exist_ok=True)
GetContentDirOf(c) ==
  /\ probe.call[c].pc = "setup"
  /\ probe.call[c].stack = << >>
  /\ probe' = [probe EXCEPT !.call[c].pc = "content_dir",
                            !.call[c].stack = << MkdirFrame(Len(shared_dir), TRUE) >>]
  /\ SharedFrame

\* one os.mkdir of Path.mkdir: the directory is made; or it is there
\* (FileExistsError), which exist_ok lets pass; or its parent is missing
\* (FileNotFoundError), and with parents the parent is made first and the
\* directory is tried again without parents.  The recursion for the parent
\* passes exist_ok=True whatever the caller gave.
MkdirOf(c) ==
  /\ probe.call[c].pc \in {"setup", "content_dir"}
  /\ probe.call[c].stack # << >>
  /\ LET me    == probe.call[c]
         top   == me.stack[Len(me.stack)]
         below == SubSeq(me.stack, 1, Len(me.stack) - 1)
         d     == Ancestor(top.k)
         tolerated == IF Len(me.stack) = 1 THEN exist_ok ELSE TRUE
     IN  IF d \in probe.dirs
         THEN IF tolerated
              THEN probe' = [probe EXCEPT !.call[c].stack = below,
                                          !.call[c].raced =
                                             @ \/ (Len(me.stack) > 1)
                                               \/ (~top.parents /\ me.pc = "content_dir")]
              ELSE probe' = [probe EXCEPT !.call[c].pc = "raised"]
         ELSE IF top.k > 1 /\ Ancestor(top.k - 1) \notin probe.dirs
         THEN IF top.parents
              THEN probe' = [probe EXCEPT !.call[c].stack =
                                below \o << MkdirFrame(top.k, FALSE),
                                            MkdirFrame(top.k - 1, TRUE) >>]
              ELSE probe' = [probe EXCEPT !.call[c].pc = "raised"]
         ELSE probe' = [probe EXCEPT !.dirs = @ \cup {d},
                                     !.call[c].stack = below]
  /\ SharedFrame

\* _move_to_final_location: shutil.move of the next staged file to
\* content_dir / name; a file of that name is replaced, a missing directory
\* is an error
MoveOf(c) ==
  /\ probe.call[c].pc = "content_dir"
  /\ probe.call[c].stack = << >>
  /\ probe.call[c].n < 3
  /\ LET dst == [dir |-> shared_dir, name |-> staged_names(c)[probe.call[c].n + 1]]
     IN  IF shared_dir \in probe.dirs
         THEN probe' = [probe EXCEPT !.files = Put(@, dst, c),
                                     !.call[c].n = @ + 1]
         ELSE probe' = [probe EXCEPT !.call[c].pc = "raised"]
  /\ SharedFrame

\* save_content returns the three final paths
ReturnOf(c) ==
  /\ probe.call[c].pc = "content_dir"
  /\ probe.call[c].stack = << >>
  /\ probe.call[c].n = 3
  /\ probe' = [probe EXCEPT !.call[c].pc = "returned"]
  /\ SharedFrame

NextShared ==
  \E c \in {1, 2} :
    \/ SetupOf(c)
    \/ GetContentDirOf(c)
    \/ MkdirOf(c)
    \/ MoveOf(c)
    \/ ReturnOf(c)

SpecShared == InitShared /\ [][NextShared]_vars

\* C31: two concurrent saves of records with different base file names into
\* the same <base>/<date>/<kind> directory both succeed under every
\* interleaving: neither call raises, in particular not for a directory the
\* other call has made; a call that has made its directories finds all of
\* them there; and each file a call has moved, all three once it has
\* returned, holds that call's own content.
C31_ConcurrentSavesSucceed ==
  \A c \in {1, 2} :
    LET me == probe.call[c]
    IN  /\ me.pc # "raised"
        /\ (me.pc = "content_dir" /\ me.stack = << >>) => shared_dir \in probe.dirs
        /\ me.pc = "returned" => me.n = 3
        /\ \A i \in 1..me.n :
             LET p == [dir |-> shared_dir, name |-> staged_names(c)[i]]
             IN  p \in DOMAIN probe.files /\ probe.files[p] = c

\* each call found a directory missing that the other then made before it,
\* and both have returned with their six files in the directory
C31_Witness ==
  /\ probe.call[1].pc = "returned" /\ probe.call[1].raced
  /\ probe.call[2].pc = "returned" /\ probe.call[2].raced
  /\ Cardinality(DOMAIN probe.files) = 6
  /\ probe.dirs = {Ancestor(j) : j \in 1..Len(shared_dir)}
=============================================================================
